---------------------------- MODULE Spec2Model ----------------------------
(***************************************************************************)
(* Model of the Twooter team-bot toolkit: the credential store, the token  *)
(* validator, the authentication fallback of AuthenticationManager, the    *)
(* like/repost family of PostingManager and the 429-retry loops of the     *)
(* orchestration scripts.                                                  *)
(***************************************************************************)
EXTENDS Integers, Sequences, FiniteSets, TLC

(***************************************************************************)
(* Values                                                                  *)
(***************************************************************************)

\* Python None, as the value of a token variable or of a JSON field.
NoneVal == "<None>"
\* A key that a JSON object does not have.
Missing == "<missing>"
\* No row for the username in the tokens table.
NoRow == "<norow>"
\* The sentinel stored when the server answers without a token.
SESSION_BASED == "session_based"

Users == {"alice", "bob"}
BearerTokens == {"tokA", "tokB"}
\* What current_token can be.
TokenVals == BearerTokens \cup {"", SESSION_BASED, NoneVal}

\* Python truthiness of an Optional[str] token.
Truthy(x) == x /= NoneVal /\ x /= ""

(***************************************************************************)
(* Optional strings whose characters matter (bot key, invite code).       *)
(***************************************************************************)
Whitespace == {" ", "\t"}
NoneStr == [none |-> TRUE, chars |-> <<>>]
Str(cs) == [none |-> FALSE, chars |-> cs]

RECURSIVE lstrip(_)
lstrip(cs) == IF cs /= <<>> /\ Head(cs) \in Whitespace THEN lstrip(Tail(cs)) ELSE cs

RECURSIVE rstrip(_)
rstrip(cs) ==
    IF cs /= <<>> /\ cs[Len(cs)] \in Whitespace
    THEN rstrip(SubSeq(cs, 1, Len(cs) - 1))
    ELSE cs

\* str.strip()
strip(s) == Str(rstrip(lstrip(s.chars)))

\* Python truthiness of an Optional[str].
TruthyStr(s) == ~s.none /\ s.chars /= <<>>

\* "if x and x.strip():" of the fallback.
NonBlank(s) == TruthyStr(s) /\ TruthyStr(strip(s))

KeyInputs == {NoneStr, Str(<<>>), Str(<<" ", "\t">>), Str(<<" ", "k", " ">>)}

(***************************************************************************)
(* team_info as the fallback sees it.                                      *)
(*   "none"     None                                                       *)
(*   "empty"    {}                                                         *)
(*   "nulls"    all four keys present, values None                         *)
(*   "partial"  a non-empty dict that lacks one of the four keys           *)
(*   "complete" all four keys present with values                          *)
(***************************************************************************)
TeamInfos == {"none", "empty", "nulls", "partial", "complete"}
TruthyTeamInfo(ti) == ti \notin {"none", "empty"}
HasAllTeamKeys(ti) == ti \in {"nulls", "complete"}

(***************************************************************************)
(* HTTP responses.  status 0 is a requests exception (no response).        *)
(***************************************************************************)
Resp(st, js, tk, at) == [status |-> st, json |-> js, token |-> tk, access_token |-> at]
NetErr == Resp(0, FALSE, Missing, Missing)

Bodies ==
    { <<FALSE, Missing, Missing>>,
      <<TRUE, Missing, Missing>>,
      <<TRUE, "tokA", Missing>>,
      <<TRUE, "", Missing>>,
      <<TRUE, NoneVal, Missing>>,
      <<TRUE, Missing, "tokB">>,
      <<TRUE, "", "tokB">> }

AuthResponses ==
    { Resp(200, b[1], b[2], b[3]) : b \in Bodies }
        \cup { Resp(201, TRUE, "tokA", Missing), Resp(401, TRUE, Missing, Missing), NetErr }

ProbeResponses == { Resp(200, TRUE, Missing, Missing), Resp(401, TRUE, Missing, Missing), NetErr }

\* Which statement of the tokens table fails with a storage error, if any.
Faults == {"none", "get", "put", "del"}
\* The failures a handler can meet among the statements it runs.
FaultChoices(enabled, kinds) == IF enabled THEN kinds \cup {"none"} ELSE {"none"}

(***************************************************************************)
(* Credential store                                                        *)
(***************************************************************************)
\* The tokens table as SQLite holds it: a set of rows.  username is the
\* PRIMARY KEY and token is NOT NULL.
Row(username, token) == [username |-> username, token |-> token]
RowsOf(rows, username) == { r \in rows : r.username = username }

\* INSERT without OR REPLACE into a table without primary key.
Table_store_token_Appends(rows, username, token) ==
    IF token = NoneVal THEN [raises |-> TRUE, rows |-> rows]
    ELSE [raises |-> FALSE, rows |-> rows \cup {Row(username, token)}]

\* INSERT OR REPLACE: the rows in conflict on the primary key are deleted
\* and the row is inserted; a NULL token violates NOT NULL and the
\* statement raises sqlite3.IntegrityError.
Table_store_token(rows, username, token) ==
    IF token = NoneVal THEN [raises |-> TRUE, rows |-> rows]
    ELSE [raises |-> FALSE, rows |-> (rows \ RowsOf(rows, username)) \cup {Row(username, token)}]

\* SELECT token ... WHERE username = ? and fetchone(): the tokens fetchone
\* can return, None when no row matches.
Table_get_stored_token(rows, username) ==
    IF RowsOf(rows, username) = {} THEN {NoneVal}
    ELSE { r.token : r \in RowsOf(rows, username) }

\* DELETE ... WHERE username = ?
Table_remove_stored_token(rows, username) == rows \ RowsOf(rows, username)

\* The table as the map the handlers are written over.
AsMap(rows) ==
    [u \in Users |-> IF RowsOf(rows, u) = {} THEN NoRow
                     ELSE (CHOOSE r \in RowsOf(rows, u) : TRUE).token]

_store_token(db, username, token) == [db EXCEPT ![username] = token]

_get_stored_token(db, username) == IF db[username] = NoRow THEN NoneVal ELSE db[username]

_remove_stored_token(db, username) == [db EXCEPT ![username] = NoRow]

(***************************************************************************)
(* Session accessors                                                       *)
(***************************************************************************)
is_authenticated(tok) == tok /= NoneVal

\* A header that is not in the dict, and f"Bearer {token}".
NoHeader == <<>>
Bearer(tok) == <<"Bearer ", tok>>
Headers(raises, content_type, authorization) ==
    [raises |-> raises, content_type |-> content_type, authorization |-> authorization]

\* get_auth_headers with the Authorization header for every token.
get_auth_headers_AlwaysBearer(tok) ==
    IF ~Truthy(tok) THEN Headers(TRUE, NoHeader, NoHeader)
    ELSE Headers(FALSE, <<"application/json">>, Bearer(tok))

\* "raise" for "Not authenticated", otherwise the headers.
get_auth_headers(tok) ==
    IF ~Truthy(tok) THEN Headers(TRUE, NoHeader, NoHeader)
    ELSE Headers(FALSE, <<"application/json">>,
                 IF tok /= SESSION_BASED THEN Bearer(tok) ELSE NoHeader)

(***************************************************************************)
(* Effects of the handlers, as functions of the state they read and of     *)
(* what the environment answers.  ret is "true"/"false" for the validator, *)
(* "ok" for a method that returns, "raise" for one that raises.            *)
(***************************************************************************)
Eff(ret, db, tok, usr, sent) == [ret |-> ret, db |-> db, token |-> tok, user |-> usr, sent |-> sent]

\* The validator without the finally clause that restores the session.
validate_NoRollback(db, tok, usr, username, probe, fault) ==
    LET stored_token == _get_stored_token(db, username) IN
    IF fault = "get" THEN Eff("raise", db, tok, usr, FALSE)
    ELSE IF ~Truthy(stored_token) THEN Eff("false", db, tok, usr, FALSE)
    ELSE IF stored_token = SESSION_BASED THEN
        IF fault = "del" THEN Eff("raise", db, tok, usr, FALSE)
        ELSE Eff("false", _remove_stored_token(db, username), tok, usr, FALSE)
    ELSE IF probe.status = 200 THEN Eff("true", db, stored_token, username, TRUE)
    ELSE IF fault = "del" THEN Eff("raise", db, stored_token, username, TRUE)
    ELSE Eff("false", _remove_stored_token(db, username), stored_token, username, TRUE)

\* The validator leaving a rejected token in the table.
validate_KeepsStale(db, tok, usr, username, probe, fault) ==
    LET stored_token == _get_stored_token(db, username) IN
    IF fault = "get" THEN Eff("raise", db, tok, usr, FALSE)
    ELSE IF ~Truthy(stored_token) THEN Eff("false", db, tok, usr, FALSE)
    ELSE IF stored_token = SESSION_BASED THEN
        IF fault = "del" THEN Eff("raise", db, tok, usr, FALSE)
        ELSE Eff("false", _remove_stored_token(db, username), tok, usr, FALSE)
    ELSE IF probe.status = 200 THEN Eff("true", db, stored_token, username, TRUE)
    ELSE Eff("false", db, tok, usr, TRUE)

\* The validator without its early return: an absent token is probed too.
validate_ProbesAbsent(db, tok, usr, username, probe, fault) ==
    LET stored_token == _get_stored_token(db, username) IN
    IF fault = "get" THEN Eff("raise", db, tok, usr, FALSE)
    ELSE IF stored_token = SESSION_BASED THEN
        IF fault = "del" THEN Eff("raise", db, tok, usr, FALSE)
        ELSE Eff("false", _remove_stored_token(db, username), tok, usr, FALSE)
    ELSE IF probe.status = 200 THEN Eff("true", db, stored_token, username, TRUE)
    ELSE IF fault = "del" THEN Eff("raise", db, tok, usr, TRUE)
    ELSE Eff("false", _remove_stored_token(db, username), tok, usr, TRUE)

\* The validator without its branch for the sentinel.
validate_ProbesSentinel(db, tok, usr, username, probe, fault) ==
    LET stored_token == _get_stored_token(db, username) IN
    IF fault = "get" THEN Eff("raise", db, tok, usr, FALSE)
    ELSE IF ~Truthy(stored_token) THEN Eff("false", db, tok, usr, FALSE)
    ELSE IF probe.status = 200 THEN Eff("true", db, stored_token, username, TRUE)
    ELSE IF fault = "del" THEN Eff("raise", db, tok, usr, TRUE)
    ELSE Eff("false", _remove_stored_token(db, username), tok, usr, TRUE)

_validate_stored_token(db, tok, usr, username, probe, fault) ==
    LET stored_token == _get_stored_token(db, username) IN
    IF fault = "get" THEN Eff("raise", db, tok, usr, FALSE)
    ELSE IF ~Truthy(stored_token) THEN Eff("false", db, tok, usr, FALSE)
    ELSE IF stored_token = SESSION_BASED THEN
        IF fault = "del" THEN Eff("raise", db, tok, usr, FALSE)
        ELSE Eff("false", _remove_stored_token(db, username), tok, usr, FALSE)
    ELSE IF probe.status = 200 THEN Eff("true", db, stored_token, username, TRUE)
    ELSE IF fault = "del" THEN Eff("raise", db, tok, usr, TRUE)
    ELSE Eff("false", _remove_stored_token(db, username), tok, usr, TRUE)

\* login without its _store_token.
login_NoStore(db, tok, usr, username, resp, fault) ==
    IF resp.status = 200 THEN
        IF ~resp.json THEN Eff("raise", db, tok, usr, TRUE)
        ELSE
            LET token == IF resp.token /= Missing THEN resp.token
                         ELSE IF resp.access_token /= Missing THEN resp.access_token
                         ELSE NoneVal
                new == IF Truthy(token) THEN token ELSE SESSION_BASED
            IN  Eff("ok", db, new, username, TRUE)
    ELSE Eff("raise", db, tok, usr, TRUE)

login(db, tok, usr, username, resp, fault) ==
    IF resp.status = 200 THEN
        IF ~resp.json THEN Eff("raise", db, tok, usr, TRUE)
        ELSE
            LET token == IF resp.token /= Missing THEN resp.token
                         ELSE IF resp.access_token /= Missing THEN resp.access_token
                         ELSE NoneVal
                new == IF Truthy(token) THEN token ELSE SESSION_BASED
            IN  IF fault = "put" THEN Eff("raise", db, new, username, TRUE)
                ELSE Eff("ok", _store_token(db, username, new), new, username, TRUE)
    ELSE Eff("raise", db, tok, usr, TRUE)

\* register_with_bot_key, register_with_team_invite and register_new_team
\* differ in the endpoint and the payload only.
register(db, tok, usr, username, resp, fault) ==
    IF resp.status \in {200, 201} THEN
        IF ~resp.json THEN Eff("raise", db, tok, usr, TRUE)
        ELSE
            LET token == IF resp.token /= Missing THEN resp.token ELSE SESSION_BASED
            IN  IF fault = "put" \/ token = NoneVal
                THEN Eff("raise", db, token, username, TRUE)
                ELSE Eff("ok", _store_token(db, username, token), token, username, TRUE)
    ELSE Eff("raise", db, tok, usr, TRUE)

register_with_bot_key(db, tok, usr, username, resp, fault) ==
    register(db, tok, usr, username, resp, fault)

register_with_team_invite(db, tok, usr, username, resp, fault) ==
    register(db, tok, usr, username, resp, fault)

register_new_team(db, tok, usr, username, resp, fault) ==
    register(db, tok, usr, username, resp, fault)

logout(db, tok, usr, fault) ==
    IF Truthy(tok) /\ usr /= NoneVal THEN
        IF fault = "del" THEN Eff("raise", db, tok, usr, TRUE)
        ELSE Eff("ok", _remove_stored_token(db, usr), NoneVal, NoneVal, TRUE)
    ELSE Eff("ok", db, NoneVal, NoneVal, FALSE)


(***************************************************************************)
(* PostingManager: like_post, unlike_post, repost and unrepost.            *)
(***************************************************************************)
MaxPostId == 2
PostIds == 1..MaxPostId

FacadeResponses ==
    { Resp(200, TRUE, Missing, Missing), Resp(200, FALSE, Missing, Missing),
      Resp(409, TRUE, Missing, Missing), Resp(429, TRUE, Missing, Missing),
      Resp(500, FALSE, Missing, Missing), NetErr }

\* No value: the call raised, or returned nothing the model looks at.
NoValue == [status |-> Missing, post_id |-> 0]
\* What the server's JSON body is to the caller.
ServerBody == [status |-> "<body>", post_id |-> 0]

Out(ret, exc, sent, value) == [ret |-> ret, exc |-> exc, sent |-> sent, value |-> value]

\* The four methods share their shape: the guard on is_authenticated, the
\* request with get_auth_headers(), and the mapping of the status code.
\* The four methods with 409 left to the branch of the other failures.
engage_ConflictFails(tok, post_id, resp, conflict) ==
    IF ~is_authenticated(tok) THEN Out("raise", "Not authenticated", FALSE, NoValue)
    ELSE IF get_auth_headers(tok).raises THEN Out("raise", "Not authenticated", FALSE, NoValue)
    ELSE IF resp.status = 0 THEN Out("raise", "Network error", TRUE, NoValue)
    ELSE IF resp.status = 200 THEN
        IF resp.json THEN Out("ok", "none", TRUE, ServerBody)
        ELSE Out("raise", "JSON", TRUE, NoValue)
    ELSE Out("raise", "Failed", TRUE, NoValue)

\* The four methods without their check of the session.
engage_SendsUnauthenticated(tok, post_id, resp, conflict) ==
    IF resp.status = 0 THEN Out("raise", "Network error", TRUE, NoValue)
    ELSE IF resp.status = 200 THEN
        IF resp.json THEN Out("ok", "none", TRUE, ServerBody)
        ELSE Out("raise", "JSON", TRUE, NoValue)
    ELSE IF resp.status = 409 THEN
        Out("ok", "none", TRUE, [status |-> conflict, post_id |-> post_id])
    ELSE Out("raise", "Failed", TRUE, NoValue)

engage(tok, post_id, resp, conflict) ==
    IF ~is_authenticated(tok) THEN Out("raise", "Not authenticated", FALSE, NoValue)
    ELSE IF get_auth_headers(tok).raises THEN Out("raise", "Not authenticated", FALSE, NoValue)
    ELSE IF resp.status = 0 THEN Out("raise", "Network error", TRUE, NoValue)
    ELSE IF resp.status = 200 THEN
        IF resp.json THEN Out("ok", "none", TRUE, ServerBody)
        ELSE Out("raise", "JSON", TRUE, NoValue)
    ELSE IF resp.status = 409 THEN
        Out("ok", "none", TRUE, [status |-> conflict, post_id |-> post_id])
    ELSE Out("raise", "Failed", TRUE, NoValue)

like_post(tok, post_id, resp) == engage(tok, post_id, resp, "already_liked")

unlike_post(tok, post_id, resp) == engage(tok, post_id, resp, "not_liked")

repost(tok, post_id, resp) == engage(tok, post_id, resp, "already_reposted")

unrepost(tok, post_id, resp) == engage(tok, post_id, resp, "not_reposted")

(***************************************************************************)
(* The 429-retry loops: the per-post loop of post_social_content,          *)
(* generate_social_post and reply_to_post.                                 *)
(***************************************************************************)
max_retries == 3
PostBase == 30
GenBase == 5
base_delay == 30
\* base_delay of the reply_to_post of trending_orchestrator
trend_base_delay == 5
JitterMin == 1
JitterMax == 5
\* random.uniform(1, 5), in whole seconds
Jitters == JitterMin..JitterMax

\* The number of answers the remote has ready for one call.
ScriptLen == 4

\* What the remote does with one request:
\*   "ok"      2xx with the created post (data.id) / a completion with text
\*   "nodata"  2xx without data / a completion without text
\*   "429"     HTTP 429 Too Many Requests
\*   "500"     another failure
\*   "500*"    another failure whose message happens to contain "429"
Answers == {"ok", "nodata", "429", "500", "500*"}
Scripts == [1..ScriptLen -> Answers]

RECURSIVE Pow2(_)
Pow2(n) == IF n <= 0 THEN 1 ELSE 2 * Pow2(n - 1)

Call(raises, rate_text, has_data) == [raises |-> raises, rate_text |-> rate_text, has_data |-> has_data]

\* PostingManager.create_post as the loops see it: the result, or the
\* exception and whether its text matches the rate-limit test.
create_post(ans) ==
    CASE ans = "ok" -> Call(FALSE, FALSE, TRUE)
      [] ans = "nodata" -> Call(FALSE, FALSE, FALSE)
      [] ans = "429" -> Call(TRUE, TRUE, FALSE)
      [] ans = "500" -> Call(TRUE, FALSE, FALSE)
      [] OTHER -> Call(TRUE, TRUE, FALSE)

\* TwooterTeamBot.create_post: the wrapped result, or None (has_data FALSE)
\* for a result without data.id and for every exception.
bot_create_post(ans) ==
    LET r == create_post(ans) IN
    IF ~r.raises /\ r.has_data THEN Call(FALSE, FALSE, TRUE) ELSE Call(FALSE, FALSE, FALSE)

\* client.chat.completions.create followed by the check of the text.
chat_completion(ans) ==
    CASE ans = "ok" -> Call(FALSE, FALSE, TRUE)
      [] ans = "nodata" -> Call(TRUE, FALSE, FALSE)
      [] ans = "429" -> Call(TRUE, TRUE, FALSE)
      [] ans = "500" -> Call(TRUE, FALSE, FALSE)
      [] OTHER -> Call(TRUE, TRUE, FALSE)

\* wait_time of post_social_content for the retry_count-th rate limit
post_wait_time(n) == PostBase * Pow2(n - 1)

\* wait_time of generate_social_post
gen_wait_time(n) == GenBase * Pow2(n - 1)

\* delay of reply_to_post
reply_delay(att, jitter) == base_delay * Pow2(att) + jitter

\* delay of the reply_to_post of trending_orchestrator
trend_reply_delay(att, jitter) == trend_base_delay * Pow2(att) + jitter

(***************************************************************************)
(* PostingManager.create_post and create_thread.                           *)
(***************************************************************************)
\* The longest list of posts given to create_thread.
MaxThread == 3

\* Strings are sequences of characters.
Contents == { <<"a">>, <<"b">> }
ThreadInputs == UNION { [1..n -> Contents] : n \in 0..MaxThread }
\* delay_seconds
Delays == {0, 1}

\* An Optional[int]: None, or the id.
NoId == <<>>
Id(n) == <<n>>

DigitChar == <<"0", "1", "2", "3", "4", "5", "6", "7", "8", "9">>

\* str(n) of a natural number
RECURSIVE Digits(_)
Digits(n) ==
    IF n < 10 THEN <<DigitChar[n + 1]>>
    ELSE Digits(n \div 10) \o <<DigitChar[(n % 10) + 1]>>

\* f"{content} ({i+1}/{len(posts)})"
thread_indicator(content, k, n) ==
    content \o <<" ", "(">> \o Digits(k) \o <<"/">> \o Digits(n) \o <<")">>

\* What the remote does with POST /twoots/:
\*   "created"   2xx, data.id is the id of the new post
\*   "noid"      2xx, no data or no data.id in the body
\*   "nulldata"  2xx, "data": null in the body
\*   "fail"      another status
\*   "neterr"    a requests exception
ThreadAnswers ==
    { [kind |-> "created", id |-> n] : n \in PostIds }
        \cup { [kind |-> k, id |-> 0] : k \in {"noid", "nulldata", "fail", "neterr"} }

PostOut(ret, exc, sent, id, payload) ==
    [ret |-> ret, exc |-> exc, sent |-> sent, id |-> id, payload |-> payload]

\* Optional[str] embed and Optional[List[str]] media: None, empty, or with
\* content (a list as the sequence of its items).
EmbedInputs == {NoneStr, Str(<<>>), Str(<<"u">>)}
MediaInputs == {NoneStr, Str(<<>>), Str(<<"m">>)}
ParentInputs == {NoId} \cup { Id(n) : n \in 0..MaxPostId }

\* A JSON body: the keys it has and their values.
Body(keys, content, parent_id, embed, media) ==
    [keys |-> keys, content |-> content, parent_id |-> parent_id,
     embed |-> IF "embed" \in keys THEN embed ELSE NoneStr,
     media |-> IF "media" \in keys THEN media ELSE NoneStr]

\* payload of PostingManager.create_post
post_payload(content, parent_id, embed, media) ==
    Body({"content", "parent_id"}
            \cup (IF TruthyStr(embed) THEN {"embed"} ELSE {})
            \cup (IF TruthyStr(media) THEN {"media"} ELSE {}),
         content, parent_id, embed, media)

\* payload of TwootsAPI.create
twoots_payload(content, parent_id, embed, media) ==
    Body({"content", "parent_id"}
            \cup (IF ~embed.none THEN {"embed"} ELSE {})
            \cup (IF ~media.none THEN {"media"} ELSE {}),
         content, parent_id, embed, media)

\* create_post leaving parent_id out of the body of a post without parent.
posting_create_post_OmitsNullParent(tok, content, parent_id, embed, media, ans) ==
    LET full == post_payload(content, parent_id, embed, media)
        payload == IF parent_id = NoId
                   THEN [full EXCEPT !.keys = full.keys \ {"parent_id"}]
                   ELSE full
    IN
    IF ~is_authenticated(tok) THEN PostOut("raise", "Not authenticated", FALSE, NoId, payload)
    ELSE IF get_auth_headers(tok).raises
    THEN PostOut("raise", "Not authenticated", FALSE, NoId, payload)
    ELSE CASE ans.kind = "created" -> PostOut("ok", "none", TRUE, Id(ans.id), payload)
           [] ans.kind = "noid" -> PostOut("ok", "none", TRUE, NoId, payload)
           [] ans.kind = "nulldata" -> PostOut("raise", "AttributeError", TRUE, NoId, payload)
           [] ans.kind = "fail" -> PostOut("raise", "Post creation failed", TRUE, NoId, payload)
           [] OTHER -> PostOut("raise", "Network error", TRUE, NoId, payload)

\* create_post(content, parent_id, embed, media); id is
\* result.get('data', {}).get('id') of what it returns.
posting_create_post(tok, content, parent_id, embed, media, ans) ==
    LET payload == post_payload(content, parent_id, embed, media) IN
    IF ~is_authenticated(tok) THEN PostOut("raise", "Not authenticated", FALSE, NoId, payload)
    ELSE IF get_auth_headers(tok).raises
    THEN PostOut("raise", "Not authenticated", FALSE, NoId, payload)
    ELSE CASE ans.kind = "created" -> PostOut("ok", "none", TRUE, Id(ans.id), payload)
           [] ans.kind = "noid" -> PostOut("ok", "none", TRUE, NoId, payload)
           [] ans.kind = "nulldata" -> PostOut("raise", "AttributeError", TRUE, NoId, payload)
           [] ans.kind = "fail" -> PostOut("raise", "Post creation failed", TRUE, NoId, payload)
           [] OTHER -> PostOut("raise", "Network error", TRUE, NoId, payload)

\* TwootsAPI.create: the request goes out with the headers of the username;
\* raise_for_status() raises for "fail", every 2xx body is returned.
twoots_create(content, parent_id, embed, media, ans) ==
    LET payload == twoots_payload(content, parent_id, embed, media) IN
    CASE ans.kind = "created" -> PostOut("ok", "none", TRUE, Id(ans.id), payload)
      [] ans.kind \in {"noid", "nulldata"} -> PostOut("ok", "none", TRUE, NoId, payload)
      [] ans.kind = "fail" -> PostOut("raise", "HTTPError", TRUE, NoId, payload)
      [] OTHER -> PostOut("raise", "Network error", TRUE, NoId, payload)

\* search_posts: a GET without headers, whatever the session.
search_posts(resp) ==
    IF resp.status = 0 THEN Out("raise", "Network error", TRUE, NoValue)
    ELSE IF resp.status = 200 THEN
        IF resp.json THEN Out("ok", "none", TRUE, ServerBody)
        ELSE Out("raise", "JSON", TRUE, NoValue)
    ELSE Out("raise", "Search failed", TRUE, NoValue)

\* TwooterTeamBot.create_thread: the list PostingManager.create_thread
\* returned, or None for every exception.
bot_create_thread(status, results) ==
    IF status = "returned" THEN [none |-> FALSE, posts |-> results]
    ELSE [none |-> TRUE, posts |-> <<>>]

(***************************************************************************)
(* State                                                                   *)
(***************************************************************************)
VARIABLES
    tokens,            \* the tokens table: username -> token, or NoRow
    current_token,     \* AuthenticationManager.current_token
    current_username,  \* AuthenticationManager.current_username
    pc,                \* position inside authenticate_with_fallback, or "idle"
    args,              \* the arguments of the running / last call
    trace,             \* the requests the running / last call has issued
    log,               \* the step failures the running / last call has printed
    result,            \* how the last call ended
    old,               \* store and session when the running / last call began
    storage_faults,    \* whether statements on the tokens table can fail
    rkind,             \* the 429-retry loop that is running / ran last
    rscript,           \* what the remote answers to the loop's consecutive requests
    rsent,             \* the number of requests the loop has issued
    retry_count,       \* retry_count of post_social_content and generate_social_post
    attempt,           \* attempt of reply_to_post
    posted,            \* posted of post_social_content
    sleeps,            \* the delays of the time.sleep calls of the loop, in order
    rstatus,           \* "idle", "running", "returned" or "raised"
    rvalue,            \* what the loop returned or raised
    posting_results,   \* the records post_social_content appended for the post
    thread_posts,      \* posts of create_thread
    thread_delay,      \* delay_seconds of create_thread
    thread_i,          \* the number of iterations of its loop that are over
    thread_parent_id,  \* parent_id of create_thread
    thread_results,    \* results of create_thread, as the ids of the posts
    thread_requests,   \* the bodies sent to POST /twoots/ by the call, in order
    thread_sleeps,     \* the number of time.sleep(delay_seconds) of the call
    thread_status,     \* "idle", "running", "returned" or "raised"
    thread_exc,        \* the exception that left create_thread
    thread_carried,    \* the results that exception holds besides its message
    running,           \* running of TwooterTeamBot
    auto_mode,         \* auto_mode of TwooterTeamBot
    posting_manager,   \* whether posting_manager of TwooterTeamBot is set
    table,             \* the rows of the tokens table, as (username, token)
    store_history,     \* the statements run on the table, in order
    store_got,         \* what the latest statement returned
    proc,              \* the process that is running
    saved,             \* session and position of the process that is not
    ae_pc,             \* where auto_engage stands: "idle", "head", "search", "act", ...
    keywords,          \* the number of keywords given to auto_engage
    actions,           \* actions of auto_engage
    max_actions_per_hour,
    action_count,      \* action_count of auto_engage
    ae_k,              \* the keyword the for loop is at
    ae_posts,          \* the number of posts with an id among posts[:2]
    ae_p,              \* the post the for loop is at
    ae_a,              \* the action the for loop is at
    performed,         \* like/repost/reply calls made since the last reset
    after_clear,       \* such calls made while running or auto_mode was False
    reposted,          \* the server: the posts the user has reposted
    toggle_post,       \* post_id of repost_or_unrepost
    toggle_requests,   \* the requests of the call, in order
    toggle_status,     \* "idle", "running", "conflict", "returned" or "raised"
    toggle_history     \* the calls that are over: post, state before and after

authVars == <<tokens, current_token, current_username, pc, args, trace, log, result, old,
              storage_faults>>
retryVars == <<rkind, rscript, rsent, retry_count, attempt, posted, sleeps, rstatus, rvalue,
               posting_results>>
threadVars == <<thread_posts, thread_delay, thread_i, thread_parent_id, thread_results,
                thread_requests, thread_sleeps, thread_status, thread_exc, thread_carried>>
botVars == <<running, auto_mode, posting_manager>>
storeVars == <<table, store_history, store_got>>
procVars == <<proc, saved>>
engageVars == <<ae_pc, keywords, actions, max_actions_per_hour, action_count, ae_k, ae_posts,
                ae_p, ae_a, performed, after_clear>>
toggleVars == <<reposted, toggle_post, toggle_requests, toggle_status, toggle_history>>
vars == <<authVars, retryVars, threadVars, botVars, storeVars, procVars, engageVars, toggleVars>>

NoArgs == [op |-> "none", username |-> NoneVal, bot_key |-> NoneStr,
           invite |-> NoneStr, team_info |-> "none", via |-> "none", post_id |-> 0,
           parent_id |-> NoId, embed |-> NoneStr, media |-> NoneStr, resp |-> NetErr]
\* carried: the step errors an exception carries besides its message.
NoResult == [status |-> "none", by |-> "none", exc |-> "none", storage |-> FALSE,
             value |-> NoValue, carried |-> <<>>]

Returned(by) == [NoResult EXCEPT !.status = "returned", !.by = by]
ReturnedValue(by, value) == [NoResult EXCEPT !.status = "returned", !.by = by, !.value = value]
Raised(by, exc, storage) ==
    [NoResult EXCEPT !.status = "raised", !.by = by, !.exc = exc, !.storage = storage]
Running == [NoResult EXCEPT !.status = "running"]

Snapshot == [token |-> current_token, user |-> current_username, db |-> tokens]

\* Session and position of a process: its AuthenticationManager and where
\* it stands in the method it runs.
Context(tok, usr, at, a, tr, lg, res, o) ==
    [token |-> tok, username |-> usr, pc |-> at, args |-> a, trace |-> tr, log |-> lg,
     result |-> res, old |-> o]
\* A process that has just built its AuthenticationManager.
NoContext ==
    Context(NoneVal, NoneVal, "idle", NoArgs, <<>>, <<>>, NoResult,
            [token |-> NoneVal, user |-> NoneVal, db |-> [u \in Users |-> NoRow]])

\* A request and whether the step it belongs to went through.  The status is
\* kept for the probe and for the like/repost family only.
Req(ep, ok) == [ep |-> ep, ok |-> ok, status |-> 0]
ReqStatus(ep, ok, status) == [ep |-> ep, ok |-> ok, status |-> status]
\* A request of the like/repost family, with the headers it was sent with.
ReqHeaders(ep, ok, status, headers) ==
    [ep |-> ep, ok |-> ok, status |-> status, headers |-> headers]
\* A request with a JSON body.
ReqBody(ep, ok, body) == [ep |-> ep, ok |-> ok, status |-> 0, body |-> body]

Init ==
    /\ tokens = [u \in Users |-> NoRow]
    /\ current_token = NoneVal
    /\ current_username = NoneVal
    /\ pc = "idle"
    /\ args = NoArgs
    /\ trace = <<>>
    /\ log = <<>>
    /\ result = NoResult
    /\ old = [token |-> NoneVal, user |-> NoneVal, db |-> [u \in Users |-> NoRow]]
    /\ storage_faults = FALSE
    /\ rkind = "none"
    /\ rscript = <<>>
    /\ rsent = 0
    /\ retry_count = 0
    /\ attempt = 0
    /\ posted = FALSE
    /\ sleeps = <<>>
    /\ rstatus = "idle"
    /\ rvalue = "none"
    /\ posting_results = <<>>
    /\ thread_posts = <<>>
    /\ thread_delay = 0
    /\ thread_i = 0
    /\ thread_parent_id = NoId
    /\ thread_results = <<>>
    /\ thread_requests = <<>>
    /\ thread_sleeps = 0
    /\ thread_status = "idle"
    /\ thread_exc = "none"
    /\ thread_carried = <<>>
    /\ running = FALSE
    /\ auto_mode = FALSE
    /\ posting_manager = FALSE
    /\ table = {}
    /\ store_history = <<>>
    /\ store_got = "none"
    /\ proc = 1
    /\ saved = NoContext
    /\ ae_pc = "idle"
    /\ keywords = 0
    /\ actions = <<>>
    /\ max_actions_per_hour = 0
    /\ action_count = 0
    /\ ae_k = 0
    /\ ae_posts = 0
    /\ ae_p = 0
    /\ ae_a = 0
    /\ performed = 0
    /\ after_clear = 0
    /\ reposted = {}
    /\ toggle_post = 0
    /\ toggle_requests = <<>>
    /\ toggle_status = "idle"
    /\ toggle_history = <<>>

\* The handler's effect on the store and the session.
Apply(e) ==
    /\ tokens' = e.db
    /\ current_token' = e.token
    /\ current_username' = e.user

\* A store statement failed although the server had answered.
StorageRaised(e, fault) == e.ret = "raise" /\ fault /= "none"

(***************************************************************************)
(* The methods of AuthenticationManager called on their own.               *)
(***************************************************************************)
Single(op, username, ep, resp, e, fault) ==
    /\ pc = "idle"
    /\ Apply(e)
    /\ args' = [NoArgs EXCEPT !.op = op, !.username = username, !.via = "direct",
                              !.resp = resp]
    /\ trace' = IF e.sent
                THEN <<ReqStatus(ep, e.ret \in {"ok", "true"},
                                 IF ep = "/auth/me" THEN resp.status ELSE 0)>>
                ELSE <<>>
    /\ log' = <<>>
    /\ result' = IF e.ret = "raise" THEN Raised(op, op, StorageRaised(e, fault))
                 ELSE Returned(IF e.ret = "false" THEN "false" ELSE op)
    /\ old' = Snapshot
    /\ pc' = "done"
    /\ UNCHANGED <<storage_faults, retryVars, threadVars, botVars, storeVars, procVars, engageVars, toggleVars>>

Validate ==
    \E u \in Users, probe \in ProbeResponses, fault \in FaultChoices(storage_faults, {"get", "del"}) :
        Single("validate", u, "/auth/me", probe,
               _validate_stored_token(tokens, current_token, current_username, u, probe, fault),
               fault)

Login ==
    \E u \in Users, resp \in AuthResponses, fault \in FaultChoices(storage_faults, {"put"}) :
        Single("login", u, "/auth/login", resp,
               login(tokens, current_token, current_username, u, resp, fault), fault)

RegisterWithBotKey ==
    \E u \in Users, resp \in AuthResponses, fault \in FaultChoices(storage_faults, {"put"}) :
        Single("register_with_bot_key", u, "/auth/register-bot", resp,
               register_with_bot_key(tokens, current_token, current_username, u, resp, fault),
               fault)

RegisterWithTeamInvite ==
    \E u \in Users, resp \in AuthResponses, fault \in FaultChoices(storage_faults, {"put"}) :
        Single("register_with_team_invite", u, "/auth/register", resp,
               register_with_team_invite(tokens, current_token, current_username, u, resp, fault),
               fault)

RegisterNewTeam ==
    \E u \in Users, resp \in AuthResponses, fault \in FaultChoices(storage_faults, {"put"}) :
        Single("register_new_team", u, "/auth/register-team", resp,
               register_new_team(tokens, current_token, current_username, u, resp, fault),
               fault)

\* The answer to POST /auth/logout, or the exception of the request, is
\* dropped by the bare except.
Logout ==
    \E resp \in ProbeResponses, fault \in FaultChoices(storage_faults, {"del"}) :
        Single("logout", current_username, "/auth/logout", resp,
               logout(tokens, current_token, current_username, fault), fault)

(***************************************************************************)
(* authenticate_with_fallback, one action per "Try" of the method.         *)
(***************************************************************************)
Begin(username, bot_key, invite, team_info, via) ==
    /\ pc = "idle"
    /\ pc' = "try0"
    /\ args' = [NoArgs EXCEPT !.op = "authenticate_with_fallback", !.username = username,
                              !.bot_key = bot_key, !.invite = invite,
                              !.team_info = team_info, !.via = via]
    /\ trace' = <<>>
    /\ log' = <<>>
    /\ result' = Running
    /\ old' = Snapshot
    /\ UNCHANGED <<tokens, current_token, current_username, storage_faults, retryVars, threadVars, botVars, storeVars, procVars, engageVars, toggleVars>>

\* What the callers pass for (competition_bot_key, team_invite_code,
\* team_info): every combination of present and absent, and every blank or
\* incomplete shape of each input beside the others.
PaddedKey == Str(<<" ", "k", " ">>)
FallbackInputs ==
    { <<k, i, ti>> : k \in {NoneStr, PaddedKey}, i \in {NoneStr, PaddedKey},
                     ti \in {"none", "complete"} }
        \cup { <<k, PaddedKey, "complete">> : k \in KeyInputs }
        \cup { <<PaddedKey, i, "complete">> : i \in KeyInputs }
        \cup { <<PaddedKey, PaddedKey, ti>> : ti \in {"none", "empty", "partial", "complete"} }
        \cup { <<k, k, "empty">> : k \in KeyInputs }

authenticate_with_fallback ==
    \E u \in Users, in \in FallbackInputs : Begin(u, in[1], in[2], in[3], "direct")

\* TrendingHashtagExtractor.login builds team_info as a dict of four
\* config.get() results, whether or not the config has the team fields.
ExtractorTeamInfo(cfgHasTeam) == IF cfgHasTeam THEN "complete" ELSE "nulls"

\* What config.get() gives for a key of the configuration file.
ConfigValues == {NoneStr, Str(<<"k">>)}

ExtractorLogin ==
    \E u \in Users, k \in ConfigValues, i \in ConfigValues, cfgHasTeam \in BOOLEAN :
        Begin(u, k, i, ExtractorTeamInfo(cfgHasTeam), "extractor")

\* A step that returned: the method returns its result.
StepDone(step) ==
    /\ pc' = "done"
    /\ result' = Returned(step)
    /\ log' = log

\* A step that raised: the failure is printed and the next step follows.
StepFailed(step, next) ==
    /\ pc' = next
    /\ result' = result
    /\ log' = Append(log, step)

\* Try 0 without its return: a valid stored token is followed by the login.
Try0_NoReturn ==
    /\ pc = "try0"
    /\ \E probe \in ProbeResponses, fault \in FaultChoices(storage_faults, {"get", "del"}) :
        LET e == _validate_stored_token(tokens, current_token, current_username,
                                        args.username, probe, fault)
        IN  /\ Apply(e)
            /\ trace' = IF e.sent
                         THEN Append(trace, ReqStatus("/auth/me", e.ret = "true", probe.status))
                         ELSE trace
            /\ pc' = "try1"
            /\ UNCHANGED <<result, log>>
    /\ UNCHANGED <<args, old, storage_faults, retryVars, threadVars, botVars, storeVars, procVars, engageVars, toggleVars>>

\* Try 0 followed by the registrations: a rejected stored token skips Try 1.
Try0_SkipsLogin ==
    /\ pc = "try0"
    /\ \E probe \in ProbeResponses, fault \in FaultChoices(storage_faults, {"get", "del"}) :
        LET e == _validate_stored_token(tokens, current_token, current_username,
                                        args.username, probe, fault)
        IN  /\ Apply(e)
            /\ trace' = IF e.sent
                         THEN Append(trace, ReqStatus("/auth/me", e.ret = "true", probe.status))
                         ELSE trace
            /\ \/ e.ret = "true" /\ StepDone("stored")
               \/ e.ret = "false" /\ pc' = "try2" /\ UNCHANGED <<result, log>>
               \/ /\ e.ret = "raise"
                  /\ pc' = "done"
                  /\ result' = Raised("stored", "storage", TRUE)
                  /\ log' = log
    /\ UNCHANGED <<args, old, storage_faults, retryVars, threadVars, botVars, storeVars, procVars, engageVars, toggleVars>>

Try0 ==
    /\ pc = "try0"
    /\ \E probe \in ProbeResponses, fault \in FaultChoices(storage_faults, {"get", "del"}) :
        LET e == _validate_stored_token(tokens, current_token, current_username,
                                        args.username, probe, fault)
        IN  /\ Apply(e)
            /\ trace' = IF e.sent
                         THEN Append(trace, ReqStatus("/auth/me", e.ret = "true", probe.status))
                         ELSE trace
            /\ \/ e.ret = "true" /\ StepDone("stored")
               \/ e.ret = "false" /\ pc' = "try1" /\ UNCHANGED <<result, log>>
               \/ /\ e.ret = "raise"
                  /\ pc' = "done"
                  /\ result' = Raised("stored", "storage", TRUE)
                  /\ log' = log
    /\ UNCHANGED <<args, old, storage_faults, retryVars, threadVars, botVars, storeVars, procVars, engageVars, toggleVars>>

\* Try 1 without its return: a login that went through is followed by Try 2.
Try1_NoReturn ==
    /\ pc = "try1"
    /\ \E resp \in AuthResponses, fault \in FaultChoices(storage_faults, {"put"}) :
        LET e == login(tokens, current_token, current_username, args.username, resp, fault)
        IN  /\ Apply(e)
            /\ trace' = Append(trace, Req("/auth/login", e.ret = "ok"))
            /\ pc' = "try2"
            /\ UNCHANGED <<result, log>>
    /\ UNCHANGED <<args, old, storage_faults, retryVars, threadVars, botVars, storeVars, procVars, engageVars, toggleVars>>

Try1 ==
    /\ pc = "try1"
    /\ \E resp \in AuthResponses, fault \in FaultChoices(storage_faults, {"put"}) :
        LET e == login(tokens, current_token, current_username, args.username, resp, fault)
        IN  /\ Apply(e)
            /\ trace' = Append(trace, Req("/auth/login", e.ret = "ok"))
            /\ \/ e.ret = "ok" /\ StepDone("login")
               \/ e.ret = "raise" /\ StepFailed("login", "try2")
    /\ UNCHANGED <<args, old, storage_faults, retryVars, threadVars, botVars, storeVars, procVars, engageVars, toggleVars>>

Skip(next) ==
    /\ pc' = next
    /\ UNCHANGED <<tokens, current_token, current_username, trace, log, result>>

\* Try 2 with its condition never true: the bot key is never used.
Try2_NeverAttempts ==
    /\ pc = "try2"
    /\ Skip("try3")
    /\ UNCHANGED <<args, old, storage_faults, retryVars, threadVars, botVars, storeVars, procVars, engageVars, toggleVars>>

Try2 ==
    /\ pc = "try2"
    /\ IF NonBlank(args.bot_key)
       THEN \E resp \in AuthResponses, fault \in FaultChoices(storage_faults, {"put"}) :
            LET e == register_with_bot_key(tokens, current_token, current_username,
                                           args.username, resp, fault)
            IN  /\ Apply(e)
                /\ trace' = Append(trace, Req("/auth/register-bot", e.ret = "ok"))
                /\ \/ e.ret = "ok" /\ StepDone("bot_key")
                   \/ e.ret = "raise" /\ StepFailed("bot_key", "try3")
       ELSE Skip("try3")
    /\ UNCHANGED <<args, old, storage_faults, retryVars, threadVars, botVars, storeVars, procVars, engageVars, toggleVars>>

\* Try 3 repeated after a failure instead of moving on.
Try3_Retries ==
    /\ pc = "try3"
    /\ IF NonBlank(args.invite)
       THEN \E resp \in AuthResponses, fault \in FaultChoices(storage_faults, {"put"}) :
            LET e == register_with_team_invite(tokens, current_token, current_username,
                                               args.username, resp, fault)
            IN  /\ Apply(e)
                /\ trace' = Append(trace, Req("/auth/register", e.ret = "ok"))
                /\ \/ e.ret = "ok" /\ StepDone("invite")
                   \/ e.ret = "raise" /\ StepFailed("invite", "try3")
       ELSE Skip("try4")
    /\ UNCHANGED <<args, old, storage_faults, retryVars, threadVars, botVars, storeVars, procVars, engageVars, toggleVars>>

Try3 ==
    /\ pc = "try3"
    /\ IF NonBlank(args.invite)
       THEN \E resp \in AuthResponses, fault \in FaultChoices(storage_faults, {"put"}) :
            LET e == register_with_team_invite(tokens, current_token, current_username,
                                               args.username, resp, fault)
            IN  /\ Apply(e)
                /\ trace' = Append(trace, Req("/auth/register", e.ret = "ok"))
                /\ \/ e.ret = "ok" /\ StepDone("invite")
                   \/ e.ret = "raise" /\ StepFailed("invite", "try4")
       ELSE Skip("try4")
    /\ UNCHANGED <<args, old, storage_faults, retryVars, threadVars, botVars, storeVars, procVars, engageVars, toggleVars>>

Try4 ==
    /\ pc = "try4"
    /\ IF TruthyTeamInfo(args.team_info)
       THEN IF HasAllTeamKeys(args.team_info)
            THEN \E resp \in AuthResponses, fault \in FaultChoices(storage_faults, {"put"}) :
                 LET e == register_new_team(tokens, current_token, current_username,
                                            args.username, resp, fault)
                 IN  /\ Apply(e)
                     /\ trace' = Append(trace, Req("/auth/register-team", e.ret = "ok"))
                     /\ \/ e.ret = "ok" /\ StepDone("new_team")
                        \/ e.ret = "raise" /\ StepFailed("new_team", "fail")
            ELSE \* team_info['team_name'] raises KeyError before any request
                 /\ StepFailed("new_team", "fail")
                 /\ UNCHANGED <<tokens, current_token, current_username, trace>>
       ELSE Skip("fail")
    /\ UNCHANGED <<args, old, storage_faults, retryVars, threadVars, botVars, storeVars, procVars, engageVars, toggleVars>>

AllMethodsFailed == "All authentication methods failed"

\* The method falling off its end instead of raising.
Exhausted_Returns ==
    /\ pc = "fail"
    /\ pc' = "done"
    /\ result' = Returned("exhausted")
    /\ UNCHANGED <<tokens, current_token, current_username, args, trace, log, old,
                   storage_faults, retryVars, threadVars, botVars, storeVars, procVars, engageVars, toggleVars>>

Exhausted ==
    /\ pc = "fail"
    /\ pc' = "done"
    /\ result' = Raised("exhausted", AllMethodsFailed, FALSE)
    /\ UNCHANGED <<tokens, current_token, current_username, args, trace, log, old,
                   storage_faults, retryVars, threadVars, botVars, storeVars, procVars, engageVars, toggleVars>>

(***************************************************************************)
(* The like/repost family of PostingManager.                               *)
(***************************************************************************)
Facade(op, ep, post_id, resp, o) ==
    /\ pc = "idle"
    /\ thread_status = "idle"
    /\ pc' = "done"
    /\ args' = [NoArgs EXCEPT !.op = op, !.username = current_username,
                              !.via = "direct", !.post_id = post_id]
    /\ trace' = IF o.sent
                THEN <<ReqHeaders(ep, o.ret = "ok", resp.status, get_auth_headers(current_token))>>
                ELSE <<>>
    /\ log' = <<>>
    /\ result' = IF o.ret = "ok" THEN ReturnedValue(op, o.value) ELSE Raised(op, o.exc, FALSE)
    /\ old' = Snapshot
    /\ UNCHANGED <<tokens, current_token, current_username, storage_faults, retryVars, threadVars, botVars, storeVars, procVars, engageVars, toggleVars>>

LikePost ==
    \E p \in PostIds, resp \in FacadeResponses :
        Facade("like_post", "POST /twoots/id/like", p, resp, like_post(current_token, p, resp))

UnlikePost ==
    \E p \in PostIds, resp \in FacadeResponses :
        Facade("unlike_post", "DELETE /twoots/id/like", p, resp,
               unlike_post(current_token, p, resp))

Repost ==
    \E p \in PostIds, resp \in FacadeResponses :
        Facade("repost", "POST /twoots/id/repost", p, resp, repost(current_token, p, resp))

Unrepost ==
    \E p \in PostIds, resp \in FacadeResponses :
        Facade("unrepost", "DELETE /twoots/id/repost", p, resp,
               unrepost(current_token, p, resp))

\* The caller has looked at the outcome; the manager waits for the next call.
Return ==
    /\ pc = "done"
    /\ args.via /= "start"
    /\ pc' = "idle"
    /\ args' = NoArgs
    /\ trace' = <<>>
    /\ log' = <<>>
    /\ result' = NoResult
    /\ old' = Snapshot
    /\ UNCHANGED <<tokens, current_token, current_username, storage_faults, retryVars, threadVars, botVars, storeVars, procVars, engageVars, toggleVars>>

Next ==
    \/ Return
    \/ Validate
    \/ Login
    \/ RegisterWithBotKey
    \/ RegisterWithTeamInvite
    \/ RegisterNewTeam
    \/ Logout
    \/ authenticate_with_fallback
    \/ ExtractorLogin
    \/ Try0
    \/ Try1
    \/ Try2
    \/ Try3
    \/ Try4
    \/ Exhausted
    \/ LikePost
    \/ UnlikePost
    \/ Repost
    \/ Unrepost

Spec == Init /\ [][Next]_vars

(***************************************************************************)
(* The same manager over a tokens table whose statements can fail (the     *)
(* file locked, unreadable or read-only): sqlite3 raises from the SELECT   *)
(* of _get_stored_token, the INSERT of _store_token or the DELETE of       *)
(* _remove_stored_token.                                                   *)
(***************************************************************************)
InitFaults ==
    /\ tokens = [u \in Users |-> NoRow]
    /\ current_token = NoneVal
    /\ current_username = NoneVal
    /\ pc = "idle"
    /\ args = NoArgs
    /\ trace = <<>>
    /\ log = <<>>
    /\ result = NoResult
    /\ old = [token |-> NoneVal, user |-> NoneVal, db |-> [u \in Users |-> NoRow]]
    /\ storage_faults = TRUE
    /\ rkind = "none"
    /\ rscript = <<>>
    /\ rsent = 0
    /\ retry_count = 0
    /\ attempt = 0
    /\ posted = FALSE
    /\ sleeps = <<>>
    /\ rstatus = "idle"
    /\ rvalue = "none"
    /\ posting_results = <<>>
    /\ thread_posts = <<>>
    /\ thread_delay = 0
    /\ thread_i = 0
    /\ thread_parent_id = NoId
    /\ thread_results = <<>>
    /\ thread_requests = <<>>
    /\ thread_sleeps = 0
    /\ thread_status = "idle"
    /\ thread_exc = "none"
    /\ thread_carried = <<>>
    /\ running = FALSE
    /\ auto_mode = FALSE
    /\ posting_manager = FALSE
    /\ table = {}
    /\ store_history = <<>>
    /\ store_got = "none"
    /\ proc = 1
    /\ saved = NoContext
    /\ ae_pc = "idle"
    /\ keywords = 0
    /\ actions = <<>>
    /\ max_actions_per_hour = 0
    /\ action_count = 0
    /\ ae_k = 0
    /\ ae_posts = 0
    /\ ae_p = 0
    /\ ae_a = 0
    /\ performed = 0
    /\ after_clear = 0
    /\ reposted = {}
    /\ toggle_post = 0
    /\ toggle_requests = <<>>
    /\ toggle_status = "idle"
    /\ toggle_history = <<>>

NextFaults ==
    \/ Return
    \/ Validate
    \/ Login
    \/ Logout
    \/ authenticate_with_fallback
    \/ Try0
    \/ Try1
    \/ Try2
    \/ Try3
    \/ Try4
    \/ Exhausted

SpecFaults == InitFaults /\ [][NextFaults]_vars

(***************************************************************************)
(* The retry loops, one action per iteration.                              *)
(***************************************************************************)
RetryCall(kind, script) ==
    /\ rstatus = "idle"
    /\ rkind' = kind
    /\ rscript' = script
    /\ rsent' = 0
    /\ retry_count' = 0
    /\ attempt' = 0
    /\ posted' = FALSE
    /\ sleeps' = <<>>
    /\ rstatus' = "running"
    /\ rvalue' = "none"
    /\ posting_results' = <<>>
    /\ UNCHANGED <<authVars, threadVars, botVars, storeVars, procVars, engageVars, toggleVars>>

CallPostSocialContent ==
    /\ rstatus = "idle"
    /\ \E script \in Scripts : RetryCall("post_social_content", script)

CallGenerateSocialPost ==
    /\ rstatus = "idle"
    /\ \E script \in Scripts : RetryCall("generate_social_post", script)

CallReplyToPost ==
    /\ rstatus = "idle"
    /\ \E script \in Scripts : RetryCall("reply_to_post", script)

CallTrendReplyToPost ==
    /\ rstatus = "idle"
    /\ \E script \in Scripts : RetryCall("trend_reply_to_post", script)

\* The loop is over: what follows the while of post_social_content.
PostLoopEnd(n, isPosted, results) ==
    /\ rstatus' = "returned"
    /\ rvalue' = IF isPosted THEN "posted" ELSE "not posted"
    /\ posting_results' =
         IF ~isPosted /\ n >= max_retries
         THEN Append(results, "Failed to post after maximum retries")
         ELSE results

PostSocialContentIter ==
    /\ rkind = "post_social_content"
    /\ rstatus = "running"
    /\ retry_count < max_retries /\ ~posted
    /\ LET r == bot_create_post(rscript[rsent + 1]) IN
        /\ rsent' = rsent + 1
        /\ IF ~r.raises THEN
              /\ UNCHANGED <<retry_count, sleeps>>
              /\ posted' = r.has_data
              \* with a result the loop ends by posted; without one it breaks
              /\ PostLoopEnd(retry_count, r.has_data,
                             IF r.has_data THEN Append(posting_results, "success")
                             ELSE posting_results)
           ELSE IF r.rate_text THEN
              /\ retry_count' = retry_count + 1
              /\ posted' = posted
              /\ IF retry_count + 1 < max_retries
                 THEN /\ sleeps' = Append(sleeps, post_wait_time(retry_count + 1))
                      /\ UNCHANGED <<rstatus, rvalue, posting_results>>
                 ELSE /\ sleeps' = sleeps
                      /\ PostLoopEnd(retry_count + 1, posted,
                                     Append(posting_results, "Rate limit exceeded"))
           ELSE
              /\ UNCHANGED <<retry_count, sleeps, posted>>
              /\ PostLoopEnd(retry_count, posted, Append(posting_results, "error"))
    /\ UNCHANGED <<rkind, rscript, attempt>>
    /\ UNCHANGED <<authVars, threadVars, botVars, storeVars, procVars, engageVars, toggleVars>>

\* generate_social_post sleeping after its last attempt too, before it raises.
GenerateSocialPostIter_SleepsLast ==
    /\ rkind = "generate_social_post"
    /\ rstatus = "running"
    /\ retry_count < max_retries
    /\ LET r == chat_completion(rscript[rsent + 1]) IN
        /\ rsent' = rsent + 1
        /\ IF ~r.raises THEN
              /\ rstatus' = "returned"
              /\ rvalue' = "text"
              /\ UNCHANGED <<retry_count, sleeps>>
           ELSE IF r.rate_text THEN
              /\ retry_count' = retry_count + 1
              /\ sleeps' = Append(sleeps, gen_wait_time(retry_count + 1))
              /\ IF retry_count + 1 < max_retries
                 THEN UNCHANGED <<rstatus, rvalue>>
                 ELSE /\ rstatus' = "raised"
                      /\ rvalue' = "rate limit exceeded"
           ELSE
              /\ rstatus' = "raised"
              /\ rvalue' = "error"
              /\ UNCHANGED <<retry_count, sleeps>>
    /\ UNCHANGED <<rkind, rscript, attempt, posted, posting_results>>
    /\ UNCHANGED <<authVars, threadVars, botVars, storeVars, procVars, engageVars, toggleVars>>

GenerateSocialPostIter ==
    /\ rkind = "generate_social_post"
    /\ rstatus = "running"
    /\ retry_count < max_retries
    /\ LET r == chat_completion(rscript[rsent + 1]) IN
        /\ rsent' = rsent + 1
        /\ IF ~r.raises THEN
              /\ rstatus' = "returned"
              /\ rvalue' = "text"
              /\ UNCHANGED <<retry_count, sleeps>>
           ELSE IF r.rate_text THEN
              /\ retry_count' = retry_count + 1
              /\ IF retry_count + 1 < max_retries
                 THEN /\ sleeps' = Append(sleeps, gen_wait_time(retry_count + 1))
                      /\ UNCHANGED <<rstatus, rvalue>>
                 ELSE /\ sleeps' = sleeps
                      /\ rstatus' = "raised"
                      /\ rvalue' = "rate limit exceeded"
           ELSE
              /\ rstatus' = "raised"
              /\ rvalue' = "error"
              /\ UNCHANGED <<retry_count, sleeps>>
    /\ UNCHANGED <<rkind, rscript, attempt, posted, posting_results>>
    /\ UNCHANGED <<authVars, threadVars, botVars, storeVars, procVars, engageVars, toggleVars>>

\* reply_to_post with one attempt more than max_retries.
ReplyToPostIter_ExtraAttempt ==
    /\ rkind = "reply_to_post"
    /\ rstatus = "running"
    /\ attempt < max_retries + 1
    /\ LET r == create_post(rscript[rsent + 1]) IN
        /\ rsent' = rsent + 1
        /\ IF ~r.raises THEN
              /\ rstatus' = "returned"
              /\ rvalue' = IF r.has_data THEN "True" ELSE "False"
              /\ UNCHANGED <<attempt, sleeps>>
           ELSE IF r.rate_text /\ attempt < max_retries THEN
              /\ \E jitter \in Jitters : sleeps' = Append(sleeps, reply_delay(attempt, jitter))
              /\ attempt' = attempt + 1
              /\ UNCHANGED <<rstatus, rvalue>>
           ELSE
              /\ rstatus' = "returned"
              /\ rvalue' = "False"
              /\ UNCHANGED <<attempt, sleeps>>
    /\ UNCHANGED <<rkind, rscript, retry_count, posted, posting_results>>
    /\ UNCHANGED <<authVars, threadVars, botVars, storeVars, procVars, engageVars, toggleVars>>

ReplyToPostIter ==
    /\ rkind = "reply_to_post"
    /\ rstatus = "running"
    /\ attempt < max_retries
    /\ LET r == create_post(rscript[rsent + 1]) IN
        /\ rsent' = rsent + 1
        /\ IF ~r.raises THEN
              /\ rstatus' = "returned"
              /\ rvalue' = IF r.has_data THEN "True" ELSE "False"
              /\ UNCHANGED <<attempt, sleeps>>
           ELSE IF r.rate_text /\ attempt < max_retries - 1 THEN
              /\ \E jitter \in Jitters : sleeps' = Append(sleeps, reply_delay(attempt, jitter))
              /\ attempt' = attempt + 1
              /\ UNCHANGED <<rstatus, rvalue>>
           ELSE
              /\ rstatus' = "returned"
              /\ rvalue' = "False"
              /\ UNCHANGED <<attempt, sleeps>>
    /\ UNCHANGED <<rkind, rscript, retry_count, posted, posting_results>>
    /\ UNCHANGED <<authVars, threadVars, botVars, storeVars, procVars, engageVars, toggleVars>>

TrendReplyToPostIter ==
    /\ rkind = "trend_reply_to_post"
    /\ rstatus = "running"
    /\ attempt < max_retries
    /\ LET r == create_post(rscript[rsent + 1]) IN
        /\ rsent' = rsent + 1
        /\ IF ~r.raises THEN
              /\ rstatus' = "returned"
              /\ rvalue' = IF r.has_data THEN "True" ELSE "False"
              /\ UNCHANGED <<attempt, sleeps>>
           ELSE IF r.rate_text /\ attempt < max_retries - 1 THEN
              /\ \E jitter \in Jitters :
                    sleeps' = Append(sleeps, trend_reply_delay(attempt, jitter))
              /\ attempt' = attempt + 1
              /\ UNCHANGED <<rstatus, rvalue>>
           ELSE
              /\ rstatus' = "returned"
              /\ rvalue' = "False"
              /\ UNCHANGED <<attempt, sleeps>>
    /\ UNCHANGED <<rkind, rscript, retry_count, posted, posting_results>>
    /\ UNCHANGED <<authVars, threadVars, botVars, storeVars, procVars, engageVars, toggleVars>>

\* The caller has the outcome; the next call starts afresh.
RetryReturn ==
    /\ rstatus \in {"returned", "raised"}
    /\ rkind' = "none"
    /\ rscript' = <<>>
    /\ rsent' = 0
    /\ retry_count' = 0
    /\ attempt' = 0
    /\ posted' = FALSE
    /\ sleeps' = <<>>
    /\ rstatus' = "idle"
    /\ rvalue' = "none"
    /\ posting_results' = <<>>
    /\ UNCHANGED <<authVars, threadVars, botVars, storeVars, procVars, engageVars, toggleVars>>

NextRetry ==
    \/ CallPostSocialContent
    \/ CallGenerateSocialPost
    \/ CallReplyToPost
    \/ PostSocialContentIter
    \/ GenerateSocialPostIter
    \/ ReplyToPostIter
    \/ CallTrendReplyToPost
    \/ TrendReplyToPostIter
    \/ RetryReturn

SpecRetry == Init /\ [][NextRetry]_vars

\* A loop that is running goes on: each request is answered or fails, and
\* each time.sleep ends.
SpecRetryLive ==
    /\ SpecRetry
    /\ WF_vars(PostSocialContentIter)
    /\ WF_vars(GenerateSocialPostIter)
    /\ WF_vars(ReplyToPostIter)
    /\ WF_vars(TrendReplyToPostIter)

(***************************************************************************)
(* create_thread, one action per iteration of its loop.  The manager is    *)
(* in one of the sessions the authentication leaves behind: none, a bearer *)
(* token, the sentinel, or the empty token of a registration.              *)
(***************************************************************************)
ThreadSessions == {NoneVal, "tokA", SESSION_BASED, ""}

InitThread ==
    /\ \E tok \in ThreadSessions :
          /\ current_token = tok
          /\ current_username = IF tok = NoneVal THEN NoneVal ELSE "alice"
          /\ tokens = [u \in Users |-> IF u = "alice" /\ tok /= NoneVal THEN tok ELSE NoRow]
    /\ pc = "idle"
    /\ args = NoArgs
    /\ trace = <<>>
    /\ log = <<>>
    /\ result = NoResult
    /\ old = [token |-> NoneVal, user |-> NoneVal, db |-> [u \in Users |-> NoRow]]
    /\ storage_faults = FALSE
    /\ rkind = "none"
    /\ rscript = <<>>
    /\ rsent = 0
    /\ retry_count = 0
    /\ attempt = 0
    /\ posted = FALSE
    /\ sleeps = <<>>
    /\ rstatus = "idle"
    /\ rvalue = "none"
    /\ posting_results = <<>>
    /\ thread_posts = <<>>
    /\ thread_delay = 0
    /\ thread_i = 0
    /\ thread_parent_id = NoId
    /\ thread_results = <<>>
    /\ thread_requests = <<>>
    /\ thread_sleeps = 0
    /\ thread_status = "idle"
    /\ thread_exc = "none"
    /\ thread_carried = <<>>
    /\ running = FALSE
    /\ auto_mode = FALSE
    /\ posting_manager = FALSE
    /\ table = {}
    /\ store_history = <<>>
    /\ store_got = "none"
    /\ proc = 1
    /\ saved = NoContext
    /\ ae_pc = "idle"
    /\ keywords = 0
    /\ actions = <<>>
    /\ max_actions_per_hour = 0
    /\ action_count = 0
    /\ ae_k = 0
    /\ ae_posts = 0
    /\ ae_p = 0
    /\ ae_a = 0
    /\ performed = 0
    /\ after_clear = 0
    /\ reposted = {}
    /\ toggle_post = 0
    /\ toggle_requests = <<>>
    /\ toggle_status = "idle"
    /\ toggle_history = <<>>

CreateThread ==
    /\ thread_status = "idle"
    /\ pc = "idle"
    /\ \E posts \in ThreadInputs, delay_seconds \in Delays :
        /\ thread_posts' = posts
        /\ thread_delay' = delay_seconds
        /\ IF posts = <<>>
           THEN thread_status' = "raised" /\ thread_exc' = "No posts provided"
           ELSE thread_status' = "running" /\ thread_exc' = "none"
    /\ thread_i' = 0
    /\ thread_parent_id' = NoId
    /\ thread_results' = <<>>
    /\ thread_requests' = <<>>
    /\ thread_sleeps' = 0
    /\ thread_carried' = <<>>
    /\ UNCHANGED <<authVars, retryVars, botVars, storeVars, procVars, engageVars, toggleVars>>

\* The loop sending every post with parent_id None.
ThreadIter_NoLink ==
    /\ thread_status = "running"
    /\ \E ans \in ThreadAnswers :
        LET n == Len(thread_posts)
            k == thread_i + 1
            content == IF thread_i > 0 THEN thread_indicator(thread_posts[k], k, n)
                       ELSE thread_posts[k]
            o == posting_create_post(current_token, content, NoId, NoneStr, NoneStr, ans)
        IN  /\ thread_requests' = IF o.sent THEN Append(thread_requests, o.payload)
                                  ELSE thread_requests
            /\ IF o.ret = "ok" THEN
                  /\ thread_results' = Append(thread_results, o.id)
                  /\ thread_parent_id' = o.id
                  /\ thread_i' = k
                  /\ thread_sleeps' = IF thread_i < n - 1 /\ thread_delay > 0
                                      THEN thread_sleeps + 1 ELSE thread_sleeps
                  /\ thread_status' = IF k = n THEN "returned" ELSE "running"
                  /\ thread_exc' = thread_exc
               ELSE
                  /\ thread_status' = "raised"
                  /\ thread_exc' = o.exc
                  /\ UNCHANGED <<thread_results, thread_parent_id, thread_i, thread_sleeps>>
    /\ UNCHANGED <<thread_posts, thread_delay, thread_carried, authVars, retryVars, botVars, storeVars, procVars, engageVars, toggleVars>>

\* The loop going on to the next post after a failure.
ThreadIter_SkipsFailed ==
    /\ thread_status = "running"
    /\ \E ans \in ThreadAnswers :
        LET n == Len(thread_posts)
            k == thread_i + 1
            content == IF thread_i > 0 THEN thread_indicator(thread_posts[k], k, n)
                       ELSE thread_posts[k]
            o == posting_create_post(current_token, content, thread_parent_id, NoneStr, NoneStr, ans)
        IN  /\ thread_requests' = IF o.sent THEN Append(thread_requests, o.payload)
                                  ELSE thread_requests
            /\ thread_i' = k
            /\ thread_status' = IF k = n THEN "returned" ELSE "running"
            /\ IF o.ret = "ok" THEN
                  /\ thread_results' = Append(thread_results, o.id)
                  /\ thread_parent_id' = o.id
                  /\ thread_sleeps' = IF thread_i < n - 1 /\ thread_delay > 0
                                      THEN thread_sleeps + 1 ELSE thread_sleeps
                  /\ thread_exc' = thread_exc
               ELSE
                  /\ thread_exc' = o.exc
                  /\ UNCHANGED <<thread_results, thread_parent_id, thread_sleeps>>
    /\ UNCHANGED <<thread_posts, thread_delay, thread_carried, authVars, retryVars, botVars, storeVars, procVars, engageVars, toggleVars>>

\* The loop raising an exception that holds the results so far.
ThreadIter_CarriesResults ==
    /\ thread_status = "running"
    /\ \E ans \in ThreadAnswers :
        LET n == Len(thread_posts)
            k == thread_i + 1
            content == IF thread_i > 0 THEN thread_indicator(thread_posts[k], k, n)
                       ELSE thread_posts[k]
            o == posting_create_post(current_token, content, thread_parent_id, NoneStr, NoneStr, ans)
        IN  /\ thread_requests' = IF o.sent THEN Append(thread_requests, o.payload)
                                  ELSE thread_requests
            /\ IF o.ret = "ok" THEN
                  /\ thread_results' = Append(thread_results, o.id)
                  /\ thread_parent_id' = o.id
                  /\ thread_i' = k
                  /\ thread_sleeps' = IF thread_i < n - 1 /\ thread_delay > 0
                                      THEN thread_sleeps + 1 ELSE thread_sleeps
                  /\ thread_status' = IF k = n THEN "returned" ELSE "running"
                  /\ thread_exc' = thread_exc
                  /\ thread_carried' = thread_carried
               ELSE \* "raise": the exception of create_post leaves create_thread
                  /\ thread_status' = "raised"
                  /\ thread_exc' = o.exc
                  /\ thread_carried' = thread_results
                  /\ UNCHANGED <<thread_results, thread_parent_id, thread_i, thread_sleeps>>
    /\ UNCHANGED <<thread_posts, thread_delay, authVars, retryVars, botVars, storeVars, procVars, engageVars, toggleVars>>

ThreadIter ==
    /\ thread_status = "running"
    /\ \E ans \in ThreadAnswers :
        LET n == Len(thread_posts)
            k == thread_i + 1
            content == IF thread_i > 0 THEN thread_indicator(thread_posts[k], k, n)
                       ELSE thread_posts[k]
            o == posting_create_post(current_token, content, thread_parent_id, NoneStr, NoneStr, ans)
        IN  /\ thread_requests' = IF o.sent THEN Append(thread_requests, o.payload)
                                  ELSE thread_requests
            /\ IF o.ret = "ok" THEN
                  /\ thread_results' = Append(thread_results, o.id)
                  /\ thread_parent_id' = o.id
                  /\ thread_i' = k
                  /\ thread_sleeps' = IF thread_i < n - 1 /\ thread_delay > 0
                                      THEN thread_sleeps + 1 ELSE thread_sleeps
                  /\ thread_status' = IF k = n THEN "returned" ELSE "running"
                  /\ thread_exc' = thread_exc
               ELSE \* "raise": the exception of create_post leaves create_thread
                  /\ thread_status' = "raised"
                  /\ thread_exc' = o.exc
                  /\ UNCHANGED <<thread_results, thread_parent_id, thread_i, thread_sleeps>>
    /\ UNCHANGED <<thread_posts, thread_delay, thread_carried, authVars, retryVars, botVars, storeVars, procVars, engageVars, toggleVars>>

\* The caller has the list or the exception; the next call starts afresh.
ThreadReturn ==
    /\ thread_status \in {"returned", "raised"}
    /\ thread_posts' = <<>>
    /\ thread_delay' = 0
    /\ thread_i' = 0
    /\ thread_parent_id' = NoId
    /\ thread_results' = <<>>
    /\ thread_requests' = <<>>
    /\ thread_sleeps' = 0
    /\ thread_status' = "idle"
    /\ thread_exc' = "none"
    /\ thread_carried' = <<>>
    /\ UNCHANGED <<authVars, retryVars, botVars, storeVars, procVars, engageVars, toggleVars>>

\* create_post called on its own (a reply is create_post with a parent_id).
Post(op, parent_id, embed, media, o) ==
    /\ pc = "idle"
    /\ thread_status = "idle"
    /\ pc' = "done"
    /\ args' = [NoArgs EXCEPT !.op = op, !.username = current_username, !.via = "direct",
                              !.parent_id = parent_id, !.embed = embed, !.media = media]
    /\ trace' = IF o.sent THEN <<ReqBody("POST /twoots/", o.ret = "ok", o.payload)>> ELSE <<>>
    /\ log' = <<>>
    /\ result' = IF o.ret = "ok" THEN ReturnedValue(op, ServerBody) ELSE Raised(op, o.exc, FALSE)
    /\ old' = Snapshot
    /\ UNCHANGED <<tokens, current_token, current_username, storage_faults, retryVars, threadVars, botVars, storeVars, procVars, engageVars, toggleVars>>

CreatePost ==
    \E content \in Contents, parent_id \in ParentInputs, embed \in EmbedInputs,
       media \in MediaInputs, ans \in ThreadAnswers :
        Post("create_post", parent_id, embed, media,
             posting_create_post(current_token, content, parent_id, embed, media, ans))

TwootsCreate ==
    \E content \in Contents, parent_id \in ParentInputs, embed \in EmbedInputs,
       media \in MediaInputs, ans \in ThreadAnswers :
        Post("TwootsAPI.create", parent_id, embed, media,
             twoots_create(content, parent_id, embed, media, ans))

SearchPosts ==
    \E resp \in FacadeResponses :
        Facade("search_posts", "GET /search/twoots", 0, resp, search_posts(resp))

NextThread ==
    \/ CreateThread
    \/ ThreadIter
    \/ ThreadReturn
    \/ CreatePost
    \/ TwootsCreate
    \/ SearchPosts
    \/ LikePost
    \/ UnlikePost
    \/ Repost
    \/ Unrepost
    \/ Return

SpecThread == InitThread /\ [][NextThread]_vars

(***************************************************************************)
(* TwooterTeamBot: start, stop and the auto-engagement flag.  The session  *)
(* is that of the bot's auth_manager.                                      *)
(***************************************************************************)
\* What the configuration gives start for (competition_bot_key,
\* team_invite_code, team_info): get_team_info_for_registration returns
\* None or the complete dict.
StartInputs == { in \in FallbackInputs : in[3] \in {"none", "complete"} }

\* start up to its call of authenticate_with_fallback: a new
\* AuthenticationManager, whose session is empty, over the same database.
BotStart ==
    /\ pc = "idle"
    /\ \E u \in Users, in \in StartInputs :
          args' = [NoArgs EXCEPT !.op = "authenticate_with_fallback", !.username = u,
                                 !.bot_key = in[1], !.invite = in[2],
                                 !.team_info = in[3], !.via = "start"]
    /\ current_token' = NoneVal
    /\ current_username' = NoneVal
    /\ pc' = "try0"
    /\ trace' = <<>>
    /\ log' = <<>>
    /\ result' = Running
    /\ old' = [token |-> NoneVal, user |-> NoneVal, db |-> tokens]
    /\ UNCHANGED <<tokens, storage_faults, retryVars, threadVars, botVars, storeVars, procVars, engageVars, toggleVars>>

\* The rest of start: running is set when authenticate_with_fallback
\* returned, and start returns False when it raised.
StartReturn ==
    /\ pc = "done"
    /\ args.via = "start"
    /\ IF result.status = "returned"
       THEN running' = TRUE /\ posting_manager' = TRUE
       ELSE UNCHANGED <<running, posting_manager>>
    /\ pc' = "idle"
    /\ args' = NoArgs
    /\ trace' = <<>>
    /\ log' = <<>>
    /\ result' = NoResult
    /\ old' = Snapshot
    /\ UNCHANGED <<tokens, current_token, current_username, storage_faults, auto_mode,
                   retryVars, threadVars, storeVars, procVars, engageVars, toggleVars>>

\* stop with a logout of its auth_manager.
BotStop_LogsOut ==
    /\ pc = "idle"
    /\ running' = FALSE
    /\ auto_mode' = FALSE
    /\ current_token' = NoneVal
    /\ current_username' = NoneVal
    /\ pc' = "done"
    /\ args' = [NoArgs EXCEPT !.op = "stop", !.username = current_username, !.via = "direct"]
    /\ trace' = <<>>
    /\ log' = <<>>
    /\ result' = Returned("stop")
    /\ old' = Snapshot
    /\ UNCHANGED <<tokens, storage_faults, posting_manager, retryVars, threadVars,
                   storeVars, procVars, engageVars, toggleVars>>

BotStop ==
    /\ pc = "idle"
    /\ running' = FALSE
    /\ auto_mode' = FALSE
    /\ pc' = "done"
    /\ args' = [NoArgs EXCEPT !.op = "stop", !.username = current_username, !.via = "direct"]
    /\ trace' = <<>>
    /\ log' = <<>>
    /\ result' = Returned("stop")
    /\ old' = Snapshot
    /\ UNCHANGED <<tokens, current_token, current_username, storage_faults, posting_manager,
                   retryVars, threadVars, storeVars, procVars, engageVars, toggleVars>>

\* auto_engage up to its loop, and its finally block.
AutoEngagementBegin ==
    /\ pc = "idle"
    /\ posting_manager
    /\ ~auto_mode
    /\ auto_mode' = TRUE
    /\ UNCHANGED <<authVars, retryVars, threadVars, running, posting_manager,
                   storeVars, procVars, engageVars, toggleVars>>

AutoEngagementEnd ==
    /\ pc = "idle"
    /\ auto_mode
    /\ auto_mode' = FALSE
    /\ UNCHANGED <<authVars, retryVars, threadVars, running, posting_manager,
                   storeVars, procVars, engageVars, toggleVars>>

NextBot ==
    \/ BotStart
    \/ Try0
    \/ Try1
    \/ Try2
    \/ Try3
    \/ Try4
    \/ Exhausted
    \/ StartReturn
    \/ BotStop
    \/ Logout
    \/ Return
    \/ AutoEngagementBegin
    \/ AutoEngagementEnd

SpecBot == Init /\ [][NextBot]_vars

(***************************************************************************)
(* The credential store on its own: any sequence of the three statements.  *)
(***************************************************************************)
MaxOps == 4
StoredTokens == {"tokA", "tokB", NoneVal}
StoreOp(op, username, token) == [op |-> op, username |-> username, token |-> token]

StoreToken ==
    /\ Len(store_history) < MaxOps
    /\ \E u \in Users, tok \in StoredTokens :
        LET e == Table_store_token(table, u, tok) IN
        /\ table' = e.rows
        /\ store_got' = IF e.raises THEN "raised" ELSE "none"
        /\ store_history' = Append(store_history,
                                   StoreOp(IF e.raises THEN "put_raised" ELSE "put", u, tok))
    /\ UNCHANGED <<authVars, retryVars, threadVars, botVars, procVars, engageVars, toggleVars>>

GetStoredToken ==
    /\ Len(store_history) < MaxOps
    /\ \E u \in Users :
        /\ store_got' \in Table_get_stored_token(table, u)
        /\ store_history' = Append(store_history, StoreOp("get", u, NoneVal))
    /\ UNCHANGED <<table, authVars, retryVars, threadVars, botVars, procVars, engageVars, toggleVars>>

RemoveStoredToken ==
    /\ Len(store_history) < MaxOps
    /\ \E u \in Users :
        /\ table' = Table_remove_stored_token(table, u)
        /\ store_history' = Append(store_history, StoreOp("delete", u, NoneVal))
    /\ store_got' = "none"
    /\ UNCHANGED <<authVars, retryVars, threadVars, botVars, procVars, engageVars, toggleVars>>

NextStore == StoreToken \/ GetStoredToken \/ RemoveStoredToken

SpecStore == Init /\ [][NextStore]_vars

(***************************************************************************)
(* Two bot processes, each configured for its own username, over one       *)
(* tokens.db.  One process runs at a time; Switch hands over between any   *)
(* two statements, so that the steps of the two interleave in every order. *)
(***************************************************************************)
Procs == {1, 2}
ProcUser(p) == IF p = 1 THEN "alice" ELSE "bob"

\* What the configuration of a process gives authenticate_with_fallback.
SharedInputs == { in \in FallbackInputs : in[2] = NoneStr /\ in[3] = "none" }

Switch ==
    /\ pc /= "done"
    /\ proc' = 3 - proc
    /\ saved' = Context(current_token, current_username, pc, args, trace, log, result, old)
    /\ current_token' = saved.token
    /\ current_username' = saved.username
    /\ pc' = saved.pc
    /\ args' = saved.args
    /\ trace' = saved.trace
    /\ log' = saved.log
    /\ result' = saved.result
    /\ old' = saved.old
    /\ UNCHANGED <<tokens, storage_faults, retryVars, threadVars, botVars, storeVars,
                   engageVars, toggleVars>>

SharedValidate == Validate /\ args'.username = ProcUser(proc)

SharedLogin == Login /\ args'.username = ProcUser(proc)

\* The first process is the one that starts up: its
\* authenticate_with_fallback is interrupted anywhere by the methods the
\* second runs, which make every change to the table a start-up can make.
SharedAuthenticate ==
    /\ proc = 1
    /\ \E in \in SharedInputs : Begin(ProcUser(proc), in[1], in[2], in[3], "direct")

\* "team_bot.py --logout": DELETE FROM tokens, without building a bot.
MainLogout ==
    /\ pc = "idle"
    /\ tokens' = [u \in Users |-> NoRow]
    /\ pc' = "done"
    /\ args' = [NoArgs EXCEPT !.op = "main --logout", !.username = ProcUser(proc),
                              !.via = "direct"]
    /\ trace' = <<>>
    /\ log' = <<>>
    /\ result' = Returned("main --logout")
    /\ old' = Snapshot
    /\ UNCHANGED <<current_token, current_username, storage_faults, retryVars, threadVars,
                   botVars, storeVars, procVars, engageVars, toggleVars>>

NextShared ==
    \/ Switch
    \/ SharedValidate
    \/ SharedLogin
    \/ SharedAuthenticate
    \/ Try0
    \/ Try1
    \/ Try2
    \/ Try3
    \/ Try4
    \/ Exhausted
    \/ Logout
    \/ MainLogout
    \/ Return

SpecShared == Init /\ [][NextShared]_vars

(***************************************************************************)
(* TwooterTeamBot.auto_engage, one action per test of the while loop, per  *)
(* search and per iteration of "for action in actions".  stop() and the    *)
(* timer of example_usage run beside it and clear the flags at any point.  *)
(***************************************************************************)
MaxKeywords == 2
MaxRate == 3
\* posts[:2]
PostsPerKeyword == 2
ActionNames == {"like", "repost", "reply", "share"}
ActionLists ==
    { <<"like">>, <<"like", "repost">>, <<"reply">>, <<"share", "like">>, <<>> }
EngageCounts == 0..MaxRate

AutoEngageLooping == ae_pc \in {"head", "search", "act"}

AutoEngage ==
    /\ ae_pc = "idle"
    /\ pc = "idle"
    /\ IF ~posting_manager
       THEN /\ ae_pc' = "returned"
            /\ UNCHANGED <<auto_mode, keywords, actions, max_actions_per_hour>>
       ELSE /\ ae_pc' = "head"
            /\ auto_mode' = TRUE
            /\ keywords' \in 0..MaxKeywords
            /\ actions' \in ActionLists
            /\ max_actions_per_hour' \in EngageCounts
    /\ action_count' = 0
    /\ performed' = 0
    /\ after_clear' = 0
    /\ UNCHANGED <<ae_k, ae_posts, ae_p, ae_a, running, posting_manager>>
    /\ UNCHANGED <<authVars, retryVars, threadVars, storeVars, procVars, toggleVars>>

\* The test of the while loop, the hourly reset and the test of the limit.
\* Whether an hour has gone by since last_reset is for the clock to say.
AutoEngageHead ==
    /\ ae_pc = "head"
    /\ IF ~(auto_mode /\ running)
       THEN /\ ae_pc' = "finally"
            /\ UNCHANGED <<action_count, performed, ae_k>>
       ELSE \E hour_gone \in BOOLEAN :
            LET count == IF hour_gone THEN 0 ELSE action_count IN
            /\ action_count' = count
            /\ performed' = IF hour_gone THEN 0 ELSE performed
            /\ IF count >= max_actions_per_hour
               THEN ae_pc' = "head" /\ ae_k' = ae_k
               ELSE ae_pc' = "search" /\ ae_k' = 1
    /\ UNCHANGED <<keywords, actions, max_actions_per_hour, ae_posts, ae_p, ae_a, after_clear>>
    /\ UNCHANGED <<authVars, retryVars, threadVars, botVars, storeVars, procVars, toggleVars>>

\* search_posts for the next keyword, or the sleep that ends the pass.
AutoEngageSearch ==
    /\ ae_pc = "search"
    /\ IF ae_k > keywords
       THEN /\ ae_pc' = "head"
            /\ UNCHANGED <<ae_k, ae_posts, ae_p, ae_a>>
       ELSE \E raises \in BOOLEAN, n \in 0..PostsPerKeyword :
            IF raises \/ n = 0
            THEN /\ ae_k' = ae_k + 1
                 /\ ae_pc' = "search"
                 /\ UNCHANGED <<ae_posts, ae_p, ae_a>>
            ELSE /\ ae_posts' = n
                 /\ ae_p' = 1
                 /\ ae_a' = 1
                 /\ ae_pc' = "act"
                 /\ ae_k' = ae_k
    /\ UNCHANGED <<keywords, actions, max_actions_per_hour, action_count, performed, after_clear>>
    /\ UNCHANGED <<authVars, retryVars, threadVars, botVars, storeVars, procVars, toggleVars>>

\* The for loop moves on to the next post, or to the next keyword.
NextPost ==
    IF ae_p < ae_posts
    THEN ae_p' = ae_p + 1 /\ ae_a' = 1 /\ ae_pc' = "act" /\ ae_k' = ae_k
    ELSE ae_p' = ae_p /\ ae_a' = ae_a /\ ae_pc' = "search" /\ ae_k' = ae_k + 1

\* One iteration of "for action in actions" without the test of the limit.
AutoEngageAct_NoLimit ==
    /\ ae_pc = "act"
    /\ IF ae_a > Len(actions)
       THEN NextPost /\ UNCHANGED <<action_count, performed, after_clear>>
       ELSE LET acts == actions[ae_a] \in {"like", "repost", "reply"}
                n == IF acts THEN 1 ELSE 0 IN
            /\ action_count' = action_count + n
            /\ performed' = performed + n
            /\ after_clear' = IF auto_mode /\ running THEN after_clear ELSE after_clear + n
            /\ ae_a' = ae_a + 1
            /\ UNCHANGED <<ae_pc, ae_k, ae_p>>
    /\ UNCHANGED <<keywords, actions, max_actions_per_hour, ae_posts>>
    /\ UNCHANGED <<authVars, retryVars, threadVars, botVars, storeVars, procVars, toggleVars>>

\* One iteration of "for action in actions": the break at the limit, or the
\* action, which counts whatever like_post, repost or post returns, and
\* the sleep of two seconds.
AutoEngageAct ==
    /\ ae_pc = "act"
    /\ IF ae_a > Len(actions) \/ action_count >= max_actions_per_hour
       THEN NextPost /\ UNCHANGED <<action_count, performed, after_clear>>
       ELSE LET acts == actions[ae_a] \in {"like", "repost", "reply"}
                n == IF acts THEN 1 ELSE 0 IN
            /\ action_count' = action_count + n
            /\ performed' = performed + n
            /\ after_clear' = IF auto_mode /\ running THEN after_clear ELSE after_clear + n
            /\ ae_a' = ae_a + 1
            /\ UNCHANGED <<ae_pc, ae_k, ae_p>>
    /\ UNCHANGED <<keywords, actions, max_actions_per_hour, ae_posts>>
    /\ UNCHANGED <<authVars, retryVars, threadVars, botVars, storeVars, procVars, toggleVars>>

\* finally: self.auto_mode = False
AutoEngageFinally ==
    /\ ae_pc = "finally"
    /\ ae_pc' = "returned"
    /\ auto_mode' = FALSE
    /\ UNCHANGED <<running, posting_manager>>
    /\ UNCHANGED <<keywords, actions, max_actions_per_hour, action_count, ae_k, ae_posts, ae_p,
                   ae_a, performed, after_clear>>
    /\ UNCHANGED <<authVars, retryVars, threadVars, storeVars, procVars, toggleVars>>

\* The caller has auto_engage back.
AutoEngageReturn ==
    /\ ae_pc = "returned"
    /\ ae_pc' = "idle"
    /\ keywords' = 0
    /\ actions' = <<>>
    /\ max_actions_per_hour' = 0
    /\ action_count' = 0
    /\ ae_k' = 0
    /\ ae_posts' = 0
    /\ ae_p' = 0
    /\ ae_a' = 0
    /\ performed' = 0
    /\ after_clear' = 0
    /\ UNCHANGED <<authVars, retryVars, threadVars, botVars, storeVars, procVars, toggleVars>>

\* bot.start() before auto_engage, as main and example_usage call it, seen
\* from auto_engage: the flags it sets when it succeeds.
Started ==
    /\ ae_pc = "idle"
    /\ ~running
    /\ running' = TRUE
    /\ posting_manager' = TRUE
    /\ UNCHANGED <<auto_mode, authVars, retryVars, threadVars, storeVars, procVars, engageVars,
                   toggleVars>>

\* stop() called from another thread while auto_engage runs, or between
\* two calls.
Stopped ==
    /\ running \/ auto_mode
    /\ running' = FALSE
    /\ auto_mode' = FALSE
    /\ UNCHANGED <<posting_manager, authVars, retryVars, threadVars, storeVars, procVars,
                   engageVars, toggleVars>>

\* stop_after_delay of example_usage: bot.auto_mode = False
StopAfterDelay ==
    /\ AutoEngageLooping
    /\ auto_mode
    /\ auto_mode' = FALSE
    /\ UNCHANGED <<running, posting_manager, authVars, retryVars, threadVars, storeVars,
                   procVars, engageVars, toggleVars>>

NextEngage ==
    \/ Started
    \/ AutoEngage
    \/ AutoEngageHead
    \/ AutoEngageSearch
    \/ AutoEngageAct
    \/ AutoEngageFinally
    \/ AutoEngageReturn
    \/ Stopped
    \/ StopAfterDelay

SpecEngage == Init /\ [][NextEngage]_vars

\* The loop is the code of one thread: every search is answered or raises,
\* and every time.sleep returns.
SpecEngageLive ==
    /\ SpecEngage
    /\ WF_vars(AutoEngageHead)
    /\ WF_vars(AutoEngageSearch)
    /\ WF_vars(AutoEngageAct)
    /\ WF_vars(AutoEngageFinally)

(***************************************************************************)
(* repost_or_unrepost of the demos, over TwootsAPI.repost and unrepost.    *)
(* The server keeps the set of posts the user has reposted and answers     *)
(* POST and DELETE /twoots/{id}/repost with 200, or with 409 when the post *)
(* is already in the state asked for; it may also fail.                    *)
(***************************************************************************)
MaxToggles == 2
\* The server does as asked, does as asked and answers with a body that
\* is not JSON, answers 500, or is not reached.
ServerModes == {"ok", "nojson", "500", "down"}

\* The answer to one request and the reposts after it.
Serve(method, post, mode, set) ==
    LET inState == IF method = "POST" THEN post \in set ELSE post \notin set
        done == IF method = "POST" THEN set \cup {post} ELSE set \ {post} IN
    CASE mode = "down" -> [status |-> 0, json |-> FALSE, reposted |-> set]
      [] mode = "500"  -> [status |-> 500, json |-> TRUE, reposted |-> set]
      [] OTHER ->
           IF inState
           THEN [status |-> 409, json |-> TRUE, reposted |-> set]
           ELSE [status |-> 200, json |-> mode = "ok", reposted |-> done]

\* An exception, and the sc of the handler: the status_code of the exception
\* or of its response, None (0 here) without either.
Exc(kind, status_code) == [kind |-> kind, status_code |-> status_code]
NoExc == Exc("none", 0)
StatusOf(r) ==
    IF r.status = 0 THEN Exc("ConnectionError", 0)
    ELSE IF r.status >= 400 THEN Exc("HTTPError", r.status)
    ELSE IF ~r.json THEN Exc("JSONDecodeError", 0)
    ELSE NoExc

\* r.raise_for_status(); return r.json()
twoots_repost(r) == StatusOf(r)

\* return r.json() for a 2xx, else r.raise_for_status()
twoots_unrepost(r) == StatusOf(r)

ToggleEntry(post, before) ==
    [post |-> post, before |-> before, after |-> before, outcome |-> "running", e |-> NoExc]

ToggleDone(outcome, e, set) ==
    LET n == Len(toggle_history) IN
    [toggle_history EXCEPT ![n].outcome = outcome, ![n].e = e,
                           ![n].after = toggle_history[n].post \in set]

\* The handler with "if sc == 409" left out.
RepostOrUnrepost_UnrepostsOnAnyError ==
    /\ toggle_status = "idle"
    /\ Len(toggle_history) < MaxToggles
    /\ \E post \in 1..MaxPostId, mode \in ServerModes :
         LET r == Serve("POST", post, mode, reposted)
             e == twoots_repost(r)
             entry == ToggleEntry(post, post \in reposted) IN
         /\ toggle_post' = post
         /\ reposted' = r.reposted
         /\ toggle_requests' = <<[method |-> "POST", post |-> post, status |-> r.status]>>
         /\ toggle_status' = IF e = NoExc THEN "returned" ELSE "conflict"
         /\ toggle_history' =
              Append(toggle_history,
                     IF e = NoExc
                     THEN [entry EXCEPT !.outcome = "returned", !.after = post \in r.reposted]
                     ELSE entry)
    /\ UNCHANGED <<authVars, retryVars, threadVars, botVars, storeVars, procVars, engageVars>>

\* repost_or_unrepost up to the end of its try block and the test of sc.
RepostOrUnrepost ==
    /\ toggle_status = "idle"
    /\ Len(toggle_history) < MaxToggles
    /\ \E post \in 1..MaxPostId, mode \in ServerModes :
         LET r == Serve("POST", post, mode, reposted)
             e == twoots_repost(r)
             entry == ToggleEntry(post, post \in reposted)
             outcome == IF e = NoExc THEN "returned"
                        ELSE IF e.status_code = 409 THEN "conflict"
                        ELSE "raised" IN
         /\ toggle_post' = post
         /\ reposted' = r.reposted
         /\ toggle_requests' = <<[method |-> "POST", post |-> post, status |-> r.status]>>
         /\ toggle_status' = outcome
         /\ toggle_history' =
              Append(toggle_history,
                     IF outcome = "conflict"
                     THEN entry
                     ELSE [entry EXCEPT !.outcome = outcome, !.e = e,
                                        !.after = post \in r.reposted])
    /\ UNCHANGED <<authVars, retryVars, threadVars, botVars, storeVars, procVars, engageVars>>

\* t.post_unrepost(post_id) in the handler
RepostOrUnrepostConflict ==
    /\ toggle_status = "conflict"
    /\ \E mode \in ServerModes :
         LET r == Serve("DELETE", toggle_post, mode, reposted)
             e == twoots_unrepost(r)
             outcome == IF e = NoExc THEN "returned" ELSE "raised" IN
         /\ reposted' = r.reposted
         /\ toggle_requests' =
              Append(toggle_requests,
                     [method |-> "DELETE", post |-> toggle_post, status |-> r.status])
         /\ toggle_status' = outcome
         /\ toggle_history' = ToggleDone(outcome, e, r.reposted)
    /\ UNCHANGED toggle_post
    /\ UNCHANGED <<authVars, retryVars, threadVars, botVars, storeVars, procVars, engageVars>>

\* The caller has the result or the exception.
RepostOrUnrepostReturn ==
    /\ toggle_status \in {"returned", "raised"}
    /\ toggle_status' = "idle"
    /\ toggle_post' = 0
    /\ toggle_requests' = <<>>
    /\ UNCHANGED <<reposted, toggle_history>>
    /\ UNCHANGED <<authVars, retryVars, threadVars, botVars, storeVars, procVars, engageVars>>

\* The record of the calls made so far starts again.
ToggleForget ==
    /\ toggle_status = "idle"
    /\ Len(toggle_history) = MaxToggles
    /\ toggle_history' = <<>>
    /\ UNCHANGED <<reposted, toggle_post, toggle_requests, toggle_status>>
    /\ UNCHANGED <<authVars, retryVars, threadVars, botVars, storeVars, procVars, engageVars>>

NextToggle ==
    \/ RepostOrUnrepost
    \/ RepostOrUnrepostConflict
    \/ RepostOrUnrepostReturn
    \/ ToggleForget

SpecToggle == Init /\ [][NextToggle]_vars

(***************************************************************************)
(* Properties                                                              *)
(***************************************************************************)
InFallback == args.op = "authenticate_with_fallback"
FallbackOver == InFallback /\ pc = "done"
Sent(ep) == \E i \in DOMAIN trace : trace[i].ep = ep
RegistrationEndpoints == {"/auth/register-bot", "/auth/register", "/auth/register-team"}
LoginEndpoints == RegistrationEndpoints \cup {"/auth/login"}
ProbeAccepted == trace /= <<>> /\ trace[1].ep = "/auth/me" /\ trace[1].status = 200
RetryOver == rstatus \in {"returned", "raised"}

\* C1: a run of authenticate_with_fallback whose probe of the stored token is
\* answered 200 returns by the stored token, with the token adopted, and has
\* sent nothing to the login and registration endpoints, whatever else the
\* caller supplied.
C1_StoredTokenNoLogin ==
    (InFallback /\ ProbeAccepted) =>
        /\ pc = "done"
        /\ result = Returned("stored")
        /\ Len(trace) = 1
        /\ \A ep \in LoginEndpoints : ~Sent(ep)
        /\ current_token = old.db[args.username]
        /\ current_username = args.username

C1_Witness ==
    /\ FallbackOver /\ ProbeAccepted
    /\ NonBlank(args.bot_key) /\ NonBlank(args.invite) /\ args.team_info = "complete"

\* C2: with a non-blank bot key and a non-blank invite code, a request to
\* /auth/register is preceded in the run by a request to /auth/register-bot
\* that failed (and both follow a failed login).
C2_BotKeyBeforeInvite ==
    (InFallback /\ NonBlank(args.bot_key) /\ NonBlank(args.invite)) =>
        \A i \in DOMAIN trace :
            trace[i].ep = "/auth/register" =>
                /\ \E j \in 1..(i - 1) : trace[j].ep = "/auth/register-bot" /\ ~trace[j].ok
                /\ \E j \in 1..(i - 1) : trace[j].ep = "/auth/login" /\ ~trace[j].ok

C2_Witness ==
    /\ InFallback /\ NonBlank(args.bot_key) /\ NonBlank(args.invite)
    /\ Sent("/auth/register-bot") /\ Sent("/auth/register")

\* The validator has just run: on its own, or as Try 0 of the fallback.
ValidatorRan ==
    \/ pc = "done" /\ args.op = "validate"
    \/ InFallback /\ pc = "try1"

\* C3: when the stored token of the username is the sentinel, the validator
\* returns false without a probe, the username's row is gone, every other
\* row is as before, and the session is as before.
C3_SentinelInvalid ==
    (ValidatorRan /\ old.db[args.username] = SESSION_BASED) =>
        /\ args.op = "validate" => result = Returned("false")
        /\ trace = <<>>
        /\ tokens = [old.db EXCEPT ![args.username] = NoRow]
        /\ current_token = old.token
        /\ current_username = old.user

C3_Witness ==
    /\ pc = "done" /\ args.op = "validate"
    /\ old.db[args.username] = SESSION_BASED
    /\ old.token \in BearerTokens /\ old.user /= args.username

\* C4: when the remote answers 429 three times and then fails otherwise, the
\* call sleeps exactly three times, each delay twice the one before.
C4_ThreeSleeps ==
    (RetryOver /\ rscript = <<"429", "429", "429", "500">>) =>
        /\ Len(sleeps) = 3
        /\ sleeps[2] = 2 * sleeps[1]
        /\ sleeps[3] = 2 * sleeps[2]

\* C5: current_token is non-empty exactly when is_authenticated() is true.
C5_TokenIffAuthenticated ==
    Truthy(current_token) <=> is_authenticated(current_token)

FacadeOps == {"like_post", "unlike_post", "repost", "unrepost"}
ConflictStatus(op) ==
    CASE op = "like_post" -> "already_liked"
      [] op = "unlike_post" -> "not_liked"
      [] op = "repost" -> "already_reposted"
      [] OTHER -> "not_reposted"
Answered409 == pc = "done" /\ args.op \in FacadeOps /\ trace /= <<>> /\ trace[1].status = 409

\* C6: like_post, unlike_post, repost and unrepost answered 409 return (they
\* do not raise) the status already_liked, not_liked, already_reposted,
\* not_reposted with the post id.
C6_ConflictIsResult ==
    Answered409 =>
        /\ result.status = "returned"
        /\ result.value = [status |-> ConflictStatus(args.op), post_id |-> args.post_id]

C6_Witness == Answered409 /\ args.op = "unrepost" /\ args.post_id = MaxPostId

\* C7: a step of the fallback that goes through is the last request of the
\* run, and the run has returned by it.
C7_ShortCircuit ==
    InFallback =>
        \A i \in DOMAIN trace :
            trace[i].ok => /\ i = Len(trace)
                           /\ pc = "done"
                           /\ result.status = "returned"

C7_Witness ==
    /\ FallbackOver /\ result = Returned("bot_key")
    /\ NonBlank(args.invite) /\ args.team_info = "complete"
    /\ trace[Len(trace)].ep = "/auth/register-bot"

\* The team information is missing: None, an empty dict, or the dict of
\* None values built from a configuration without the team fields.
TeamInfoMissing(ti) == ti \in {"none", "empty", "nulls"}

\* C8: a registration step whose input is absent or blank sends no request.
C8_BlankStepsSkipped ==
    InFallback =>
        /\ ~NonBlank(args.bot_key) => ~Sent("/auth/register-bot")
        /\ ~NonBlank(args.invite) => ~Sent("/auth/register")
        /\ TeamInfoMissing(args.team_info) => ~Sent("/auth/register-team")

\* The steps the run attempts when none goes through.
AttemptedSteps ==
    <<"login">>
        \o (IF NonBlank(args.bot_key) THEN <<"bot_key">> ELSE <<>>)
        \o (IF NonBlank(args.invite) THEN <<"invite">> ELSE <<>>)
        \o (IF TruthyTeamInfo(args.team_info) THEN <<"new_team">> ELSE <<>>)

AllStepsFailed == FallbackOver /\ \A i \in DOMAIN trace : ~trace[i].ok

RegistrationsSent == { i \in DOMAIN trace : trace[i].ep \in RegistrationEndpoints }

\* C10, as stated: a run attempts at most one registration shape.
C10_AtMostOneShape == InFallback => Cardinality(RegistrationsSent) <= 1

EndpointRank(ep) ==
    CASE ep = "/auth/me" -> 0
      [] ep = "/auth/login" -> 1
      [] ep = "/auth/register-bot" -> 2
      [] ep = "/auth/register" -> 3
      [] OTHER -> 4

\* C10, amended: a run attempts each registration shape at most once, in the
\* order bot key, invite code, new team, a later shape only after the
\* earlier ones it attempted have failed; at most one goes through.
C10_EachShapeOnceInOrder ==
    InFallback =>
        /\ \A i, j \in RegistrationsSent :
               i < j => /\ EndpointRank(trace[i].ep) < EndpointRank(trace[j].ep)
                        /\ ~trace[i].ok
        /\ Cardinality({ i \in RegistrationsSent : trace[i].ok }) <= 1

C10_Witness == FallbackOver /\ Cardinality(RegistrationsSent) = 3

\* How the validator ended: on its own, or as Try 0 of the fallback.
ValidatorTrue ==
    \/ pc = "done" /\ args.op = "validate" /\ result = Returned("validate")
    \/ FallbackOver /\ result = Returned("stored")
ValidatorFalse ==
    \/ pc = "done" /\ args.op = "validate" /\ result = Returned("false")
    \/ InFallback /\ pc = "try1"
Probes == { i \in DOMAIN trace : trace[i].ep = "/auth/me" }
CachedBearer ==
    LET stored_token == _get_stored_token(old.db, args.username)
    IN  Truthy(stored_token) /\ stored_token /= SESSION_BASED

\* C11: the validator returns true only on a probe answered 200, and then the
\* session holds the cached token and the username; when it returns false
\* the session's token and username are what they were before the call.
C11_SessionFrame ==
    /\ ValidatorTrue =>
          /\ ProbeAccepted
          /\ current_token = old.db[args.username]
          /\ current_username = args.username
    /\ ValidatorFalse =>
          /\ ~ProbeAccepted
          /\ current_token = old.token
          /\ current_username = old.user

C11_Witness ==
    /\ pc = "done" /\ args.op = "validate" /\ result = Returned("false")
    /\ Probes /= {} /\ trace[1].status = 401
    /\ old.token \in BearerTokens /\ old.token /= old.db[args.username]
    /\ old.user /= args.username

\* C12: for a cached token that is not the sentinel the validator sends one
\* probe; answered 200 it returns true and the table is as before; answered
\* otherwise, or not answered, it returns false and the username's row is
\* gone, the other rows as before.
C12_ProbeDecides ==
    ((ValidatorTrue \/ ValidatorFalse) /\ CachedBearer) =>
        /\ Cardinality(Probes) = 1 /\ Len(trace) = 1
        /\ trace[1].status = 200 => (ValidatorTrue /\ tokens = old.db)
        /\ trace[1].status /= 200 =>
              (ValidatorFalse /\ tokens = [old.db EXCEPT ![args.username] = NoRow])

C12_Witness ==
    /\ pc = "done" /\ args.op = "validate" /\ CachedBearer
    /\ trace[1].status = 0
    /\ \E u \in Users : tokens[u] /= NoRow

\* C13: without a row for the username the validator returns false, sends
\* nothing, and leaves the table and the session as they were.
C13_AbsentNoProbe ==
    ((ValidatorTrue \/ ValidatorFalse) /\ old.db[args.username] = NoRow) =>
        /\ ValidatorFalse
        /\ trace = <<>>
        /\ tokens = old.db
        /\ current_token = old.token
        /\ current_username = old.user

C13_Witness ==
    /\ pc = "done" /\ args.op = "validate" /\ old.db[args.username] = NoRow
    /\ old.token \in BearerTokens
    /\ \E u \in Users : old.db[u] \in BearerTokens


\* C14: a run of the fallback never ends by a storage error: it returns, or
\* it raises the exhaustion of its steps after the login has been attempted.
C14_StorageNeverFatal ==
    FallbackOver =>
        /\ ~result.storage
        /\ result.status = "raised" => (result.exc = AllMethodsFailed /\ Sent("/auth/login"))

\* The rate-limit test of the loops: "429" in the text of the exception.
LooksRateLimited(ans) == create_post(ans).rate_text
PostingKinds == {"post_social_content", "reply_to_post", "trend_reply_to_post"}
ReplyKinds == {"reply_to_post", "trend_reply_to_post"}

\* C15: a posting call whose first request is answered 429 sleeps and sends
\* the request again.
C15_MutatingCallsRetried ==
    (RetryOver /\ rkind \in PostingKinds /\ rscript[1] = "429") =>
        /\ rsent >= 2
        /\ Len(sleeps) >= 1

\* C16: a failure other than 429 ends the call: it is the call's last
\* request and no sleep follows it.
C16_OtherErrorsNotRetried ==
    \A i \in 1..rsent :
        rscript[i] \in {"500", "500*"} =>
            /\ i = rsent
            /\ RetryOver
            /\ Len(sleeps) < i

FirstAnswers429 == \A i \in 1..max_retries : rscript[i] = "429"

\* C17: the delays of a call answered 429 throughout are 5, 10, 20 seconds
\* for content generation and 30, 60, 120 seconds for posting.
C17_DelaySequence ==
    (RetryOver /\ FirstAnswers429) =>
        /\ rkind = "generate_social_post" =>
              sleeps = <<GenBase, 2 * GenBase, 4 * GenBase>>
        /\ rkind = "post_social_content" =>
              sleeps = <<PostBase, 2 * PostBase, 4 * PostBase>>

\* C18: for generate_social_post and the two reply_to_post: answered as
\* rate-limited max_retries times the call ends after max_retries requests,
\* by the rate-limit error resp. the failed result, with one sleep between
\* consecutive requests and none after the last; and a call that ends on a
\* rate-limited answer has used all max_retries requests.
C18_ExhaustionOnly ==
    rkind \in ReplyKinds \cup {"generate_social_post"} =>
        /\ (rsent >= max_retries /\ \A i \in 1..max_retries : LooksRateLimited(rscript[i])) =>
              /\ RetryOver
              /\ rsent = max_retries
              /\ Len(sleeps) = max_retries - 1
              /\ rkind = "generate_social_post" =>
                    (rstatus = "raised" /\ rvalue = "rate limit exceeded")
              /\ rkind \in ReplyKinds => (rstatus = "returned" /\ rvalue = "False")
        /\ (RetryOver /\ LooksRateLimited(rscript[rsent])) => rsent = max_retries
        /\ rvalue = "rate limit exceeded" => rsent = max_retries
        /\ rstatus = "running" => Len(sleeps) = rsent
        /\ RetryOver => Len(sleeps) = rsent - 1

C18_Witness ==
    /\ rkind = "generate_social_post" /\ rstatus = "raised"
    /\ rvalue = "rate limit exceeded"
    /\ rscript[max_retries + 1] = "ok"

\* s ends with suffix
EndsWith(s, suffix) ==
    /\ Len(s) >= Len(suffix)
    /\ SubSeq(s, Len(s) - Len(suffix) + 1, Len(s)) = suffix
\* s begins with prefix
StartsWith(s, prefix) == Len(s) >= Len(prefix) /\ SubSeq(s, 1, Len(prefix)) = prefix
\* "(k/n)"
Indicator(k, n) == <<"(">> \o Digits(k) \o <<"/">> \o Digits(n) \o <<")">>

\* C19: while every post of create_thread has succeeded, the requests sent
\* are one per post, in the order of the list: the first with the content as
\* given and parent_id null, the k-th (k > 1) with parent_id the id returned
\* for post k-1 and with the k-th content followed by "(k/n)"; a thread that
\* returned has sent n requests and returns n results.
C19_ThreadLinkage ==
    thread_status \in {"running", "returned"} =>
        LET n == Len(thread_posts) IN
        /\ Len(thread_requests) = thread_i /\ Len(thread_results) = thread_i
        /\ thread_status = "returned" => thread_i = n
        /\ \A k \in 1..thread_i :
              IF k = 1
              THEN /\ thread_requests[k].content = thread_posts[1]
                   /\ thread_requests[k].parent_id = NoId
              ELSE /\ thread_requests[k].parent_id = thread_results[k - 1]
                   /\ StartsWith(thread_requests[k].content, thread_posts[k])
                   /\ EndsWith(thread_requests[k].content, Indicator(k, n))
                   /\ thread_requests[k].content /= thread_posts[k]

C19_Witness ==
    /\ thread_status = "returned" /\ Len(thread_posts) = MaxThread
    /\ thread_posts[1] /= thread_posts[2]
    /\ thread_results[1] = Id(1) /\ thread_results[2] = Id(2)

\* C20: a post of create_thread that fails is the last request of the call
\* and the call raises its exception: the requests sent are those of the
\* posts created plus, at most, the one that failed.
C20_AbortsOnFirstFailure ==
    /\ Len(thread_results) = thread_i
    /\ Len(thread_requests) \in {thread_i, thread_i + 1}
    /\ Len(thread_requests) > thread_i =>
          (thread_status = "raised" /\ thread_exc \notin {"none", "No posts provided"})
    /\ (thread_status = "raised" /\ thread_posts /= <<>>) =>
          (thread_i < Len(thread_posts) /\ thread_exc \notin {"none", "No posts provided"})
    /\ thread_exc /= "none" => thread_status = "raised"

C20_Witness ==
    /\ thread_status = "raised" /\ Len(thread_posts) = MaxThread
    /\ Len(thread_results) = 1 /\ Len(thread_requests) = 2

ThreadAborted == thread_status = "raised" /\ thread_posts /= <<>>

\* C21, as stated: the exception of a thread that aborted at post k holds
\* the k-1 posts created before the failure.
C21_ErrorCarriesCreated == ThreadAborted => thread_carried = thread_results

\* C21, amended: the exception of a thread that aborted at post k is the
\* exception of the failing create_post and holds no posts; the k-1 posts
\* created before are known to create_thread only, and the caller of
\* TwooterTeamBot.create_thread gets None.
C21_ErrorCarriesNothing ==
    ThreadAborted =>
        /\ thread_carried = <<>>
        /\ thread_exc \in {"Not authenticated", "AttributeError", "Post creation failed",
                            "Network error"}
        /\ Len(thread_results) = thread_i
        /\ bot_create_thread(thread_status, thread_results) = [none |-> TRUE, posts |-> <<>>]

C21_Witness == ThreadAborted /\ Len(thread_results) = 2 /\ Len(thread_requests) = 3

PostOps == {"create_post", "TwootsAPI.create"}
PostSent == pc = "done" /\ args.op \in PostOps /\ trace /= <<>>

\* C22: the body of a request of create_post has the key parent_id, with
\* null for a call without parent and the given id otherwise, and the
\* given content; it has the key embed (media) only when the caller gave
\* an embed (media), and then with the value given.  The same holds for
\* the posts create_thread sends, which have neither embed nor media.
C22_ParentIdAlwaysSent ==
    /\ PostSent =>
          LET body == trace[1].body IN
          /\ {"content", "parent_id"} \subseteq body.keys
          /\ body.parent_id = args.parent_id
          /\ "embed" \in body.keys => (~args.embed.none /\ body.embed = args.embed)
          /\ "media" \in body.keys => (~args.media.none /\ body.media = args.media)
    /\ \A k \in DOMAIN thread_requests :
          thread_requests[k].keys = {"content", "parent_id"}

C22_Witness ==
    /\ PostSent /\ args.op = "create_post"
    /\ args.parent_id = NoId /\ trace[1].body.parent_id = NoId
    /\ "embed" \in trace[1].body.keys
    /\ args.media = Str(<<>>) /\ "media" \notin trace[1].body.keys

\* The session has no token to send.
Unauthenticated == ~Truthy(current_token)
NotAuthenticatedError == result.status = "raised" /\ result.exc = "Not authenticated"
CalledFacade(ops) == pc = "done" /\ args.op \in ops

StopOver == pc = "done" /\ args.op = "stop"
LogoutOver == pc = "done" /\ args.op = "logout"
SessionEmpty == current_token = NoneVal /\ current_username = NoneVal

LoginOver == pc = "done" /\ args.op = "login"
\* The field of a response body holds a token.
Yields(field) == field /= Missing /\ Truthy(field)
SessionKept ==
    current_token = old.token /\ current_username = old.user /\ tokens = old.db

\* C25: login answered 200 with a JSON body takes the token of the field
\* token, else that of access_token, else the sentinel; the session token
\* is that value and the same value is stored for the username.  Answered
\* anything but 200, login raises and leaves session and store as they were.
C25_LoginTokenChoice ==
    LoginOver =>
        LET resp == args.resp
            expected == IF Yields(resp.token) THEN resp.token
                        ELSE IF Yields(resp.access_token) THEN resp.access_token
                        ELSE SESSION_BASED
        IN  /\ (resp.status = 200 /\ resp.json) =>
                  /\ result.status = "returned"
                  /\ current_token = expected
                  /\ current_username = args.username
                  /\ _get_stored_token(tokens, args.username) = expected
            /\ resp.status /= 200 => (result.status = "raised" /\ SessionKept)

EngagementSent == pc = "done" /\ args.op \in FacadeOps /\ trace /= <<>>

\* C26: the headers get_auth_headers builds for the session have
\* Content-Type: application/json, and have Authorization exactly when the
\* session token is not the session-based sentinel, with the value
\* "Bearer " followed by the session token; they are the headers every
\* like, unlike, repost and unrepost request is sent with.  A session
\* without token gets no headers: the method raises.
C26_AuthHeaders ==
    LET h == get_auth_headers(current_token) IN
    /\ h.raises <=> ~Truthy(current_token)
    /\ ~h.raises =>
          /\ h.content_type = <<"application/json">>
          /\ h.authorization /= NoHeader <=> current_token /= SESSION_BASED
          /\ h.authorization /= NoHeader => h.authorization = Bearer(current_token)
    /\ EngagementSent => (trace[1].headers = h /\ ~h.raises)

C26_Witness ==
    /\ EngagementSent /\ current_token = SESSION_BASED
    /\ trace[1].headers.authorization = NoHeader
    /\ trace[1].headers.content_type = <<"application/json">>

\* The token of the latest put for the username in the first n statements
\* that no delete followed, None when there is none.
RECURSIVE LatestPut(_, _, _)
LatestPut(h, n, username) ==
    IF n = 0 THEN NoneVal
    ELSE IF h[n].username = username /\ h[n].op = "put" THEN h[n].token
    ELSE IF h[n].username = username /\ h[n].op = "delete" THEN NoneVal
    ELSE LatestPut(h, n - 1, username)

\* C27: under every sequence of put, get and delete the table is a map
\* keyed by username: no username has two rows; get returns the token of
\* the latest put for the username that no delete followed, and None
\* otherwise; a put done twice is a put done once; a delete of a username
\* without row changes nothing; and the table is what the same statements
\* give on a map.
C27_StoreIsMap ==
    LET n == Len(store_history) IN
    /\ \A u \in Users :
          /\ Cardinality(RowsOf(table, u)) <= 1
          /\ Table_get_stored_token(table, u) = {LatestPut(store_history, n, u)}
          /\ _get_stored_token(AsMap(table), u) = LatestPut(store_history, n, u)
          /\ RowsOf(table, u) = {} => Table_remove_stored_token(table, u) = table
          /\ AsMap(Table_remove_stored_token(table, u)) = _remove_stored_token(AsMap(table), u)
          /\ \A tok \in StoredTokens \ {NoneVal} :
                LET once == Table_store_token(table, u, tok).rows IN
                /\ Table_store_token(once, u, tok).rows = once
                /\ AsMap(once) = _store_token(AsMap(table), u, tok)
    /\ (n > 0 /\ store_history[n].op = "get") =>
          store_got = LatestPut(store_history, n - 1, store_history[n].username)

C27_Witness ==
    /\ Len(store_history) = 4
    /\ store_history[1] = StoreOp("put", "alice", "tokA")
    /\ store_history[2] = StoreOp("put", "alice", "tokB")
    /\ store_history[3] = StoreOp("delete", "bob", NoneVal)
    /\ store_history[4] = StoreOp("get", "alice", NoneVal)
    /\ store_got = "tokB"

\* The rows of the usernames other than that of the running process.
OthersRows(db) == [u \in Users \ {ProcUser(proc)} |-> db[u]]

\* C28: a step of the process of username A, whatever the other process
\* did before, never creates, changes or deletes the row of another
\* username.
C28_OthersUntouched == [][OthersRows(tokens') = OthersRows(tokens)]_vars

\* C29: whatever the remote answers, a call of reply_to_post, of
\* generate_social_post or of the per-post loop of post_social_content
\* sends at most max_retries requests, and a loop that is running ends by
\* returning or raising.
C29_LoopsTerminate ==
    /\ [](rsent <= max_retries)
    /\ (rstatus = "running") ~> RetryOver

C29_Witness ==
    /\ RetryOver /\ rkind = "reply_to_post" /\ rsent = max_retries
    /\ Len(sleeps) = max_retries - 1
    /\ rscript[max_retries + 1] = "ok"

\* C30: when the per-post loop of post_social_content is over, the post
\* has exactly one record in posting_results, whatever the remote answered.
C30_OneRecordPerPost ==
    (RetryOver /\ rkind = "post_social_content") => Len(posting_results) = 1

FallbackReturned == FallbackOver /\ result.status = "returned"
FallbackRaised == FallbackOver /\ result.status = "raised"

\* C31: when authenticate_with_fallback has returned, by the stored token,
\* the login or a registration, the store has a row for the username whose
\* token is current_token, and current_username is the username.
C31_StoreMatchesSession ==
    FallbackReturned =>
        /\ tokens[args.username] /= NoRow
        /\ tokens[args.username] = current_token
        /\ current_username = args.username

C31_Witness ==
    /\ FallbackReturned /\ result.by = "invite"
    /\ old.db[args.username] /= NoRow
    /\ tokens[args.username] /= old.db[args.username]

\* C32: when authenticate_with_fallback has raised, current_token and
\* current_username are what they were before the call.
C32_FailureKeepsSession ==
    FallbackRaised => (current_token = old.token /\ current_username = old.user)

\* C33: the requests of one run of authenticate_with_fallback are in the
\* order probe, login, register-bot, register, register-team, each
\* endpoint at most once, and a registration request comes only after a
\* login request of the same run that failed.
C33_RequestsInOrder ==
    InFallback =>
        /\ \A i, j \in DOMAIN trace :
               i < j => EndpointRank(trace[i].ep) < EndpointRank(trace[j].ep)
        /\ \A i \in RegistrationsSent :
               \E j \in 1..(i - 1) : trace[j].ep = "/auth/login" /\ ~trace[j].ok

C33_Witness ==
    /\ FallbackOver /\ Len(trace) = 5
    /\ trace[1].ep = "/auth/me" /\ trace[5].ep = "/auth/register-team"

\* C34: logout ends with the session cleared, whatever the server answered
\* to the logout request; called on a live session it has deleted the row
\* of the current username and no other row; called without a session it
\* has left the table as it was.
C34_LogoutFrame ==
    LogoutOver =>
        /\ SessionEmpty
        /\ result.status = "returned"
        /\ is_authenticated(old.token) =>
              /\ old.user \in Users
              /\ tokens = _remove_stored_token(old.db, old.user)
        /\ ~is_authenticated(old.token) => tokens = old.db

\* C35: since the last reset of action_count, auto_engage has made at most
\* max_actions_per_hour like, repost and reply calls, and action_count is
\* their number.
C35_RateLimit ==
    /\ performed <= max_actions_per_hour
    /\ action_count = performed

C35_Witness ==
    /\ ae_pc = "act" /\ performed = MaxRate /\ max_actions_per_hour = MaxRate
    /\ ae_a <= Len(actions) /\ ae_p < ae_posts /\ ae_k < keywords

\* C36: once running or auto_mode is cleared while auto_engage loops, it
\* makes no further like, repost or reply call.
AutoEngageStopped == AutoEngageLooping /\ ~(auto_mode /\ running)

\* The second half alone: a loop whose flag is cleared comes to its end.
AutoEngageEnds == AutoEngageStopped ~> (ae_pc = "returned")

C36_StopIsPolledBetweenActions ==
    /\ [](after_clear = 0)
    /\ AutoEngageEnds

ToggleOver == toggle_status \in {"returned", "raised"}
ToggleLast == toggle_history[Len(toggle_history)]
ToggleMethods == [i \in 1..Len(toggle_requests) |-> toggle_requests[i].method]

\* C37: a call of repost_or_unrepost that returns has toggled the post: a
\* post not reposted is reposted by the one POST; a POST answered 409 is
\* followed by the DELETE, and the post is no longer reposted; any other
\* error of the POST is raised as it is, with no DELETE sent.  Two calls
\* for one post that return leave it in the state it had.
C37_Toggle ==
    /\ ToggleOver =>
         /\ toggle_requests[1].method = "POST"
         /\ (toggle_status = "returned" =>
               /\ ToggleLast.after = ~ToggleLast.before
               /\ (toggle_post \in reposted) = ToggleLast.after
               /\ ToggleMethods = IF ToggleLast.before THEN <<"POST", "DELETE">> ELSE <<"POST">>)
         /\ (~ToggleLast.before /\ toggle_requests[1].status = 200 => toggle_post \in reposted)
         /\ (toggle_requests[1].status = 409 =>
               /\ ToggleMethods = <<"POST", "DELETE">>
               /\ (toggle_requests[2].status = 200 => toggle_post \notin reposted))
         /\ (Len(toggle_requests) > 1 => toggle_requests[1].status = 409)
         /\ (toggle_requests[1].status \notin {200, 409} =>
               /\ toggle_status = "raised"
               /\ ToggleMethods = <<"POST">>
               /\ ToggleLast.e = StatusOf([status |-> toggle_requests[1].status, json |-> TRUE])
               /\ ToggleLast.after = ToggleLast.before)
    /\ \A i \in 1..Len(toggle_history), j \in 1..Len(toggle_history) :
         ( /\ j = i + 1
           /\ toggle_history[i].post = toggle_history[j].post
           /\ toggle_history[i].outcome = "returned"
           /\ toggle_history[j].outcome = "returned" )
         => toggle_history[j].after = toggle_history[i].before

C37_Witness ==
    /\ toggle_status = "returned"
    /\ Len(toggle_history) = 2
    /\ toggle_history[1].post = toggle_history[2].post
    /\ toggle_history[1].outcome = "returned"
    /\ ~toggle_history[1].before
    /\ ToggleMethods = <<"POST", "DELETE">>
    /\ toggle_post \notin reposted

=============================================================================
